---- MODULE Spec2Model ----
(***************************************************************************)
(* GemsBlast: the match-3 board engine (src/src/js/board.js, gems.js) and  *)
(* the cascade loop that drives it (src/src/js/game.js).                   *)
(*                                                                         *)
(* Objects are modelled as a heap: `gems` maps an object identity to the   *)
(* Gem's fields, `grid[y][x]` holds an identity or NoGem (null).  Indices  *)
(* are 0-based as in the source, (0,0) is the top-left cell.               *)
(*                                                                         *)
(* Time: setTimeout delays are counted in ticks of 100 ms.  A timer fires  *)
(* when its count reaches 0 and time does not advance past a due timer.    *)
(* Animation frames (requestAnimationFrame -> gameLoop -> update) may run  *)
(* at any moment, with any deltaTime.                                      *)
(***************************************************************************)
EXTENDS Integers, Sequences, FiniteSets, TLC

VARIABLES
    width,              \* GameBoard.width
    height,             \* GameBoard.height
    grid,               \* GameBoard.grid : grid[y][x] is a gem identity or NoGem
    gems,               \* the Gem objects that are still referenced, by identity
    animating,          \* GameBoard.animating
    selectedGem,        \* GameBoard.selectedGem (identity or NoGem)
    lastSwapPosition,   \* GameBoard.lastSwapPosition (<<x, y>> or Null)
    setup,              \* initializeBoard in progress: the cell it is at and its
                        \* attempts ([x, y, attempts, exhausted]), or Null
    drag,               \* draggedGem and dragStartGridPos of setupEventListeners
                        \* ([gem, pos], or Null when no pointer is down)
    gameRunning,        \* GemsBlastGame.gameRunning
    moves,              \* GemsBlastGame.currentGameMode.moves
    score,              \* GemsBlastGame.score
    endGames,           \* the calls of endGame(success) since startGame, in order
    procs,              \* suspended processMatches invocations (awaiting a delay)
    combo,              \* GemsBlastGame.combo
    comboTimeout,       \* GemsBlastGame.comboTimeout (a pending timeout or NoTimeout)
    comboTimers,        \* pending resetCombo timeouts, each by the time left to it
    swapTimers,         \* pending animateInvalidSwap timeouts
    effectTimers,       \* pending applySpecialEffect timeouts ([x, y, timer])
    inputs,             \* number of player gestures handled so far
    op,                 \* name of the last operation applied
    out,                \* result of findMatches (pure-function runs)
    holedScans          \* callers that, in the last operation, ran findMatches
                        \* on a grid with an empty cell

vars == <<width, height, grid, gems, animating, selectedGem, lastSwapPosition, drag,
          setup,
          gameRunning, moves, score, endGames, procs, combo, comboTimeout, comboTimers, swapTimers,
          effectTimers, inputs, op, out, holedScans>>

comboVars == <<combo, comboTimeout, comboTimers>>

gameVars == <<gameRunning, moves, score, endGames>>

NoGem == 0
Null == <<>>
NoTimeout == -1
Mid == <<-1, -1>>

GemColor == {"red", "blue", "green", "yellow", "purple", "orange"}

Collectibles == {"star", "sun", "moon"}

(***************************************************************************)
(* Bounds of the model.                                                    *)
(***************************************************************************)
\* board of the cascade runs (GameBoard's constructor arguments)
GameWidth == 3
GameHeight == 3
\* board of the pure-function runs
PatternSize == 6
\* player gestures per run
MaxInputs == 2
\* processMatches invocations suspended at the same time
MaxProcs == 2
\* deepest chain of processMatches calls that is followed
MaxDepth == 4
\* animateInvalidSwap timeouts pending at the same time
MaxSwapTimers == 1

(***************************************************************************)
(* Delays, in ticks of 100 ms.                                             *)
(***************************************************************************)
RemovalDelay == 4
FallDelay == 8
ComboResetDelay == 20
AnimateInDuration == 3
InvalidSwapDuration == 2
\* the per-cell stagger of the rocket and bomb effects, in milliseconds
RocketStaggerMs == 50
BombStaggerMs == 60
RainbowStaggerMs == 40

\* a delay of ms milliseconds in ticks of 100 ms, rounded up
DelayTicks(ms) == (ms + 99) \div 100

(***************************************************************************)
(* Utils                                                                   *)
(***************************************************************************)
isValidGridPosition(x, y, gridWidth, gridHeight) ==
    x >= 0 /\ x < gridWidth /\ y >= 0 /\ y < gridHeight

Abs(n) == IF n < 0 THEN -n ELSE n

areAdjacent(x1, y1, x2, y2) ==
    LET dx == Abs(x1 - x2)
        dy == Abs(y1 - y2)
    IN  (dx = 1 /\ dy = 0) \/ (dx = 0 /\ dy = 1)

getAdjacentPositions(x, y, gridWidth, gridHeight) ==
    SelectSeq(<<<<x - 1, y>>, <<x + 1, y>>, <<x, y - 1>>, <<x, y + 1>>>>,
              LAMBDA p : isValidGridPosition(p[1], p[2], gridWidth, gridHeight))

(***************************************************************************)
(* Gem                                                                     *)
(***************************************************************************)
\* new Gem(x, y, color, type): animateIn() starts in the constructor
Gem(x, y, color, type) ==
    [color |-> color, type |-> type, isRocketHorizontal |-> FALSE,
     x |-> x, y |-> y, targetX |-> x, targetY |-> y,
     current |-> <<x, y>>, animating |-> AnimateInDuration]

\* a gem whose appearance animation has finished
SettledGem(x, y, color, type) ==
    [Gem(x, y, color, type) EXCEPT !.animating = 0]

setTargetPosition(g, x, y) == [g EXCEPT !.targetX = x, !.targetY = y]

isAtTargetPosition(g) == g.current = <<g.targetX, g.targetY>>

\* matching by colour alone
canMatchWithAnyType(this, otherGem) == this.color = otherGem.color

canMatchWith(this, otherGem) ==
    IF this.type = "rainbow" \/ otherGem.type = "rainbow" THEN FALSE
    ELSE IF this.type \in Collectibles \/ otherGem.type \in Collectibles THEN FALSE
    ELSE this.color = otherGem.color

\* One call of updatePosition(deltaTime).  `arrive` says whether this frame
\* brings the gem to its target: falling, currentY reaches targetY; gliding,
\* the gem comes within 0.01 of the target.
updatePosition(g, arrive) ==
    IF isAtTargetPosition(g) THEN [g EXCEPT !.x = g.targetX, !.y = g.targetY]
    ELSE IF arrive
         THEN [g EXCEPT !.current = <<g.targetX, g.targetY>>,
                        !.x = g.targetX, !.y = g.targetY]
         ELSE [g EXCEPT !.current = Mid]

(***************************************************************************)
(* GameBoard: cells.  A board value b is [width, height, grid, gems].      *)
(***************************************************************************)
Board == [width |-> width, height |-> height, grid |-> grid, gems |-> gems]

getGem(b, x, y) ==
    IF ~isValidGridPosition(x, y, b.width, b.height) THEN NoGem ELSE b.grid[y][x]

setGem(b, x, y, gem) ==
    IF ~isValidGridPosition(x, y, b.width, b.height) THEN b
    ELSE [b EXCEPT
            !.gems = IF gem # NoGem
                     THEN [@ EXCEPT ![gem] = [@ EXCEPT !.x = x, !.y = y,
                                                       !.targetX = x, !.targetY = y]]
                     ELSE @,
            !.grid = [@ EXCEPT ![y] = [@ EXCEPT ![x] = gem]]]

swapGems(b, x1, y1, x2, y2) ==
    IF ~isValidGridPosition(x1, y1, b.width, b.height)
       \/ ~isValidGridPosition(x2, y2, b.width, b.height)
    THEN b
    ELSE LET gem1 == b.grid[y1][x1]
             gem2 == b.grid[y2][x2]
             g0 == [[b.grid EXCEPT ![y1] = [@ EXCEPT ![x1] = gem2]]
                        EXCEPT ![y2] = [@ EXCEPT ![x2] = gem1]]
             h1 == IF gem1 # NoGem
                   THEN [b.gems EXCEPT ![gem1] = [@ EXCEPT !.x = x2, !.y = y2,
                                                          !.targetX = x2, !.targetY = y2]]
                   ELSE b.gems
             h2 == IF gem2 # NoGem
                   THEN [h1 EXCEPT ![gem2] = [@ EXCEPT !.x = x1, !.y = y1,
                                                      !.targetX = x1, !.targetY = y1]]
                   ELSE h1
         IN  [b EXCEPT !.grid = g0, !.gems = h2]

(***************************************************************************)
(* GameBoard: match detection.  A match is a record                        *)
(*   [type, gems, color, length, specialType, centerX, centerY]            *)
(* whose gems are <<x, y, gem>> triples; centerX = -1 stands for an        *)
(* undefined centerX.                                                      *)
(***************************************************************************)
\* determineSpecialType with the two special types exchanged
determineSpecialTypeSwapped(match, matchType) ==
    LET length == Len(match)
    IN  IF length = 4 THEN "rainbow"
        ELSE IF length = 5 THEN "rocket"
        ELSE "normal"

determineSpecialType(match, matchType) ==
    LET length == Len(match)
    IN  IF length = 4 THEN "rocket"
        ELSE IF length = 5 THEN "rainbow"
        ELSE "normal"

RECURSIVE hRun(_, _, _, _)
hRun(b, x, y, startGem) ==
    LET gem == getGem(b, x, y)
    IN  IF x < b.width /\ gem # NoGem /\ canMatchWith(b.gems[gem], b.gems[startGem])
        THEN <<[x |-> x, y |-> y, gem |-> gem]>> \o hRun(b, x + 1, y, startGem)
        ELSE <<>>

findHorizontalMatch(b, startX, startY) ==
    LET startGem == getGem(b, startX, startY)
    IN  IF startGem = NoGem THEN <<>> ELSE hRun(b, startX, startY, startGem)

RECURSIVE vRun(_, _, _, _)
vRun(b, x, y, startGem) ==
    LET gem == getGem(b, x, y)
    IN  IF y < b.height /\ gem # NoGem /\ canMatchWith(b.gems[gem], b.gems[startGem])
        THEN <<[x |-> x, y |-> y, gem |-> gem]>> \o vRun(b, x, y + 1, startGem)
        ELSE <<>>

findVerticalMatch(b, startX, startY) ==
    LET startGem == getGem(b, startX, startY)
    IN  IF startGem = NoGem THEN <<>> ELSE vRun(b, startX, startY, startGem)

MatchCells(m) == {<<m.gems[i].x, m.gems[i].y>> : i \in 1..Len(m.gems)}

lineMatch(b, type, match) ==
    [type |-> type, gems |-> match, color |-> b.gems[match[1].gem].color,
     length |-> Len(match), specialType |-> determineSpecialType(match, type),
     centerX |-> -1, centerY |-> -1]

\* a vertical pass that adds nothing to the matches of the horizontal pass
verticalPassIdle(b, x, y, acc) == acc

\* the first loop nest of findMatches: rows, x < width - 2
RECURSIVE horizontalPass(_, _, _, _)
horizontalPass(b, y, x, acc) ==
    IF y >= b.height THEN acc
    ELSE IF x >= b.width - 2 THEN horizontalPass(b, y + 1, 0, acc)
    ELSE LET gem == getGem(b, x, y)
         IN  IF gem = NoGem \/ <<x, y>> \in acc.visited
                \/ b.gems[gem].type \in Collectibles
             THEN horizontalPass(b, y, x + 1, acc)
             ELSE LET match == findHorizontalMatch(b, x, y)
                  IN  IF Len(match) >= 3
                      THEN LET m == lineMatch(b, "horizontal", match)
                           IN  horizontalPass(b, y, x + 1,
                                   [matches |-> Append(acc.matches, m),
                                    visited |-> acc.visited \cup MatchCells(m)])
                      ELSE horizontalPass(b, y, x + 1, acc)

\* the second loop nest of findMatches: columns, y < height - 2, same visited array
RECURSIVE verticalPass(_, _, _, _)
verticalPass(b, x, y, acc) ==
    IF x >= b.width THEN acc
    ELSE IF y >= b.height - 2 THEN verticalPass(b, x + 1, 0, acc)
    ELSE LET gem == getGem(b, x, y)
         IN  IF gem = NoGem \/ <<x, y>> \in acc.visited
                \/ b.gems[gem].type \in Collectibles
             THEN verticalPass(b, x, y + 1, acc)
             ELSE LET match == findVerticalMatch(b, x, y)
                  IN  IF Len(match) >= 3
                      THEN LET m == lineMatch(b, "vertical", match)
                           IN  verticalPass(b, x, y + 1,
                                   [matches |-> Append(acc.matches, m),
                                    visited |-> acc.visited \cup MatchCells(m)])
                      ELSE verticalPass(b, x, y + 1, acc)

\* the first gem of match1, in order, whose position is also in match2; Null if none
findMatchIntersection(match1, match2) ==
    LET hits == SelectSeq(match1.gems,
                          LAMBDA g : <<g.x, g.y>> \in MatchCells(match2))
    IN  IF Len(hits) = 0 THEN Null ELSE <<hits[1].x, hits[1].y>>

\* the compound of two crossing matches with the bomb threshold at 6 tiles
combineMatchesAtSix(match1, match2, intersection) ==
    LET combinedGems == match1.gems \o
            SelectSeq(match2.gems, LAMBDA g : <<g.x, g.y>> \notin MatchCells(match1))
    IN  [type |-> "tshape", gems |-> combinedGems, color |-> match1.color,
         length |-> Len(combinedGems),
         specialType |-> IF Len(combinedGems) >= 6 THEN "bomb" ELSE "normal",
         centerX |-> intersection[1], centerY |-> intersection[2]]

combineMatches(match1, match2, intersection) ==
    LET combinedGems == match1.gems \o
            SelectSeq(match2.gems, LAMBDA g : <<g.x, g.y>> \notin MatchCells(match1))
    IN  [type |-> "tshape", gems |-> combinedGems, color |-> match1.color,
         length |-> Len(combinedGems),
         specialType |-> IF Len(combinedGems) >= 5 THEN "bomb" ELSE "normal",
         centerX |-> intersection[1], centerY |-> intersection[2]]

\* the smallest j > i, not yet processed, whose match crosses matches[i]; 0 if none
partnerOf(matches, i, processed) ==
    LET cands == {j \in (i + 1)..Len(matches) :
                    /\ j \notin processed
                    /\ findMatchIntersection(matches[i], matches[j]) # Null
                    /\ \/ matches[i].type = "horizontal" /\ matches[j].type = "vertical"
                       \/ matches[i].type = "vertical" /\ matches[j].type = "horizontal"}
    IN  IF cands = {} THEN 0 ELSE CHOOSE j \in cands : \A k \in cands : j <= k

RECURSIVE enhanceFrom(_, _, _, _)
enhanceFrom(matches, i, processed, enhanced) ==
    IF i > Len(matches) THEN enhanced
    ELSE IF i \in processed THEN enhanceFrom(matches, i + 1, processed, enhanced)
    ELSE LET j == partnerOf(matches, i, processed)
         IN  IF j # 0
             THEN enhanceFrom(matches, i + 1, processed \cup {i, j},
                      Append(enhanced,
                             combineMatches(matches[i], matches[j],
                                 findMatchIntersection(matches[i], matches[j]))))
             ELSE enhanceFrom(matches, i + 1, processed, Append(enhanced, matches[i]))

enhanceMatchesWithLAndT(matches) ==
    IF Len(matches) < 2 THEN matches ELSE enhanceFrom(matches, 1, {}, <<>>)

findMatches(b) ==
    LET h == horizontalPass(b, 0, 0, [matches |-> <<>>, visited |-> {}])
        v == verticalPass(b, 0, 0, h)
    IN  enhanceMatchesWithLAndT(v.matches)

(***************************************************************************)
(* GameBoard: resolution.                                                  *)
(***************************************************************************)
\* identity of the next object allocated
NewId(h) == CHOOSE i \in 1..(Cardinality(DOMAIN h) + 1) :
                /\ i \notin DOMAIN h
                /\ \A k \in 1..(i - 1) : k \in DOMAIN h

\* h with one more object
Alloc(h, g) == [i \in DOMAIN h \cup {NewId(h)} |-> IF i \in DOMAIN h THEN h[i] ELSE g]

getBestSpecialGemPosition(match, lsp) ==
    IF match.centerX # -1 /\ match.centerY # -1
    THEN <<match.centerX, match.centerY>>
    ELSE IF lsp # Null /\ lsp \in MatchCells(match) THEN lsp
    ELSE IF Len(match.gems) > 0
         THEN LET middleGem == match.gems[(Len(match.gems) \div 2) + 1]
              IN  <<middleGem.x, middleGem.y>>
         ELSE Null

\* a rocket whose effect runs across its orientation
getActivationEffectTurned(g) ==
    IF g.type = "rocket"
    THEN [type |-> "rocket",
          direction |-> IF g.isRocketHorizontal THEN "vertical" ELSE "horizontal",
          radius |-> 0, color |-> g.color, x |-> g.x, y |-> g.y]
    ELSE IF g.type = "bomb"
    THEN [type |-> "bomb", direction |-> "none", radius |-> 1, color |-> g.color,
          x |-> g.x, y |-> g.y]
    ELSE IF g.type = "rainbow"
    THEN [type |-> "rainbow", direction |-> "none", radius |-> 0, color |-> g.color,
          x |-> g.x, y |-> g.y]
    ELSE Null

getActivationEffect(g) ==
    IF g.type = "rocket"
    THEN [type |-> "rocket",
          direction |-> IF g.isRocketHorizontal THEN "horizontal" ELSE "vertical",
          radius |-> 0, color |-> g.color, x |-> g.x, y |-> g.y]
    ELSE IF g.type = "bomb"
    THEN [type |-> "bomb", direction |-> "none", radius |-> 1, color |-> g.color,
          x |-> g.x, y |-> g.y]
    ELSE IF g.type = "rainbow"
    THEN [type |-> "rainbow", direction |-> "none", radius |-> 0, color |-> g.color,
          x |-> g.x, y |-> g.y]
    ELSE Null

\* cells of the board in the order of the loops `for y ... for x ...`
rowMajor(b) == [i \in 1..(b.width * b.height) |->
                   <<(i - 1) % b.width, (i - 1) \div b.width>>]

\* the cells applySpecialEffect visits, in its loop order, with the delay of each
effectCells(b, effect) ==
    IF effect.type = "rocket"
    THEN IF effect.direction = "horizontal"
         THEN [i \in 1..b.width |->
                  [x |-> i - 1, y |-> effect.y,
                   delay |-> Abs((i - 1) - effect.x) * RocketStaggerMs]]
         ELSE [i \in 1..b.height |->
                  [x |-> effect.x, y |-> i - 1,
                   delay |-> Abs((i - 1) - effect.y) * RocketStaggerMs]]
    ELSE IF effect.type = "bomb"
    THEN LET side == 2 * effect.radius + 1
         IN  [i \in 1..(side * side) |->
                LET dy == ((i - 1) \div side) - effect.radius
                    dx == ((i - 1) % side) - effect.radius
                IN  [x |-> effect.x + dx, y |-> effect.y + dy,
                     delay |-> (Abs(dx) + Abs(dy)) * BombStaggerMs]]
    ELSE LET coloured == SelectSeq(rowMajor(b), LAMBDA c :
                            /\ getGem(b, c[1], c[2]) # NoGem
                            /\ b.gems[getGem(b, c[1], c[2])].color = effect.color)
         IN  [i \in 1..Len(coloured) |->
                [x |-> coloured[i][1], y |-> coloured[i][2],
                 delay |-> (i - 1) * RainbowStaggerMs]]

\* applySpecialEffect: the affected gems (those present
\* now) and one timeout per affected gem; the grid itself is not changed here
applySpecialEffect(b, effect) ==
    LET hit == SelectSeq(effectCells(b, effect),
                         LAMBDA c : getGem(b, c.x, c.y) # NoGem)
    IN  [affectedGems |-> [i \in 1..Len(hit) |->
                             [gem |-> getGem(b, hit[i].x, hit[i].y),
                              x |-> hit[i].x, y |-> hit[i].y]],
         timers |-> {[kind |-> "clear", x |-> hit[i].x, y |-> hit[i].y, gem |-> NoGem,
                      timer |-> DelayTicks(hit[i].delay)] : i \in 1..Len(hit)}]

RECURSIVE clearCells(_, _)
clearCells(b, cells) ==
    IF Len(cells) = 0 THEN b
    ELSE clearCells(setGem(b, cells[1][1], cells[1][2], NoGem), Tail(cells))

\* Gem.createSpecial
createSpecial(x, y, color, matchType, isHorizontal) ==
    LET type == IF matchType = "rocket" THEN "rocket"
                ELSE IF matchType \in {"bomb", "tshape", "lshape"} THEN "bomb"
                ELSE IF matchType = "rainbow" THEN "rainbow"
                ELSE "normal"
    IN  [Gem(x, y, color, type) EXCEPT
            !.isRocketHorizontal = (type = "rocket" /\ isHorizontal)]

\* first pass of removeMatches over matches[i..]: acc collects
\* specialGemsToCreate, gemsToRemove, specialGemsToActivate and removedGems
RECURSIVE collectMatches(_, _, _, _, _)
collectMatches(b, matches, i, lsp, acc) ==
    IF i > Len(matches) THEN acc
    ELSE LET match == matches[i]
             pos == getBestSpecialGemPosition(match, lsp)
             create == IF match.specialType # "normal" /\ pos # Null
                       THEN Append(acc.create,
                                [x |-> pos[1], y |-> pos[2], color |-> match.color,
                                 type |-> match.specialType,
                                 isHorizontal |-> (match.type = "horizontal")])
                       ELSE acc.create
             createAt == {<<create[k].x, create[k].y>> : k \in 1..Len(create)}
             keep == SelectSeq(match.gems, LAMBDA p : <<p.x, p.y>> \notin createAt)
             special == SelectSeq(match.gems,
                            LAMBDA p : b.gems[p.gem].type \in {"rocket", "bomb"})
         IN  collectMatches(b, matches, i + 1, lsp,
                [create |-> create,
                 remove |-> acc.remove \o [k \in 1..Len(keep) |-> <<keep[k].x, keep[k].y>>],
                 activate |-> acc.activate \o special,
                 removed |-> acc.removed \o
                     [k \in 1..Len(match.gems) |->
                        [gem |-> match.gems[k].gem, x |-> match.gems[k].x,
                         y |-> match.gems[k].y, matchType |-> match.specialType]]])

\* second pass: activate the matched rockets and bombs, one after the other
RECURSIVE activateAll(_, _, _, _)
activateAll(b, activate, i, timers) ==
    IF i > Len(activate) THEN [b |-> b, timers |-> timers]
    ELSE LET effect == getActivationEffect(b.gems[activate[i].gem])
             r == applySpecialEffect(b, effect)
             cells == [k \in 1..Len(r.affectedGems) |->
                          <<r.affectedGems[k].x, r.affectedGems[k].y>>]
         IN  activateAll(clearCells(b, cells), activate, i + 1, timers \cup r.timers)

RECURSIVE createAll(_, _, _)
createAll(b, create, i) ==
    IF i > Len(create) THEN b
    ELSE LET c == create[i]
             h == Alloc(b.gems, createSpecial(c.x, c.y, c.color, c.type, c.isHorizontal))
             id == NewId(b.gems)
         IN  createAll(setGem([b EXCEPT !.gems = h], c.x, c.y, id), create, i + 1)

\* removeMatches: the board afterwards, the returned removedGems, the timeouts set
removeMatches(b, matches, lsp) ==
    LET acc == collectMatches(b, matches, 1, lsp,
                   [create |-> <<>>, remove |-> <<>>, activate |-> <<>>, removed |-> <<>>])
        act == activateAll(b, acc.activate, 1, {})
        cleared == clearCells(act.b, acc.remove)
    IN  [b |-> createAll(cleared, acc.create, 1),
         removedGems |-> acc.removed,
         timers |-> act.timers]

(***************************************************************************)
(* GameBoard: activation by the player, and combinations of two specials.  *)
(* Timeouts are records [kind, x, y, gem, timer]: "clear" is the deferred  *)
(* setGem(x, y, null) of applySpecialEffect, "activate" the deferred       *)
(* activateSpecialGem(gem), "special" the deferred processSpecialActivation*)
(* (its x is the length of the affectedGems it is to be called with) and   *)
(* "gravity" the applyGravity that processSpecialActivation defers.        *)
(***************************************************************************)
SpecialActivationDelay == 300
SpecialGravityDelay == 500
RainbowRocketDelay == 500
RainbowRocketStagger == 300

timeout(kind, x, y, gem, ms) ==
    [kind |-> kind, x |-> x, y |-> y, gem |-> gem, timer |-> DelayTicks(ms)]

\* activateSpecialGem(gem) for a rocket or a bomb
activateSpecialGem(b, gem) ==
    LET g == b.gems[gem]
        effect == getActivationEffect(g)
    IN  IF effect = Null THEN [b |-> b, timers |-> {}]
        ELSE LET r == applySpecialEffect(b, effect)
             IN  [b |-> setGem(b, g.x, g.y, NoGem),
                  timers |-> r.timers \cup
                      (IF Len(r.affectedGems) > 0
                       THEN {timeout("special", Len(r.affectedGems), -1, NoGem,
                                     SpecialActivationDelay)}
                       ELSE {})]

getComboEffect(g1, g2) ==
    LET rocket == IF g1.type = "rocket" THEN g1 ELSE g2
        rainbow == IF g1.type = "rainbow" THEN g1 ELSE g2
        types == {g1.type, g2.type}
        effect(type) == [type |-> type, x |-> g1.x, y |-> g1.y,
                        isHorizontal |-> rocket.isRocketHorizontal,
                        color |-> rainbow.color]
    IN  IF types = {"rocket"} THEN effect("cross")
        ELSE IF types = {"rocket", "bomb"} THEN effect("mega_rocket")
        ELSE IF types = {"bomb"} THEN effect("double_bomb")
        ELSE IF types = {"rainbow", "rocket"} THEN effect("rainbow_rocket")
        ELSE IF types = {"rainbow", "bomb"} THEN effect("rainbow_bomb")
        ELSE IF types = {"rainbow"} THEN effect("double_rainbow")
        ELSE Null

\* the cells whose gems applyComboEffect removes at once; colorsToRemove are
\* the two colours the rainbow_bomb combination draws
comboCells(b, effect, colorsToRemove) ==
    LET all == (0..(b.width - 1)) \X (0..(b.height - 1))
    IN  IF effect.type = "cross"
        THEN {c \in all : c[2] = effect.y \/ c[1] = effect.x}
        ELSE IF effect.type = "mega_rocket"
        THEN IF effect.isHorizontal
             THEN {c \in all : Abs(c[2] - effect.y) <= 1}
             ELSE {c \in all : Abs(c[1] - effect.x) <= 1}
        ELSE IF effect.type = "double_bomb"
        THEN {c \in all : Abs(c[1] - effect.x) <= 2 /\ Abs(c[2] - effect.y) <= 2}
        ELSE IF effect.type = "rainbow_bomb"
        THEN {c \in all : /\ b.grid[c[2]][c[1]] # NoGem
                          /\ b.gems[b.grid[c[2]][c[1]]].color \in colorsToRemove}
        ELSE IF effect.type = "double_rainbow" THEN all
        ELSE {}

\* the rockets made with the other orientation
RECURSIVE turnToRocketsAcross(_, _, _, _)
turnToRocketsAcross(b, effect, k, made) ==
    IF k > b.width * b.height THEN [b |-> b, made |-> made]
    ELSE LET c == rowMajor(b)[k]
             gem == getGem(b, c[1], c[2])
         IN  IF gem # NoGem /\ b.gems[gem].color = effect.color
             THEN LET id == NewId(b.gems)
                      h == Alloc(b.gems, createSpecial(c[1], c[2], effect.color, "rocket",
                                                       ~effect.isHorizontal))
                  IN  turnToRocketsAcross(setGem([b EXCEPT !.gems = h], c[1], c[2], id),
                                          effect, k + 1, Append(made, id))
             ELSE turnToRocketsAcross(b, effect, k + 1, made)

\* the rainbow_rocket loop from the k-th cell on: each gem of the colour is
\* replaced by a new rocket; made lists the new rockets in order
RECURSIVE turnToRockets(_, _, _, _)
turnToRockets(b, effect, k, made) ==
    IF k > b.width * b.height THEN [b |-> b, made |-> made]
    ELSE LET c == rowMajor(b)[k]
             gem == getGem(b, c[1], c[2])
         IN  IF gem # NoGem /\ b.gems[gem].color = effect.color
             THEN LET id == NewId(b.gems)
                      h == Alloc(b.gems, createSpecial(c[1], c[2], effect.color, "rocket",
                                                       effect.isHorizontal))
                  IN  turnToRockets(setGem([b EXCEPT !.gems = h], c[1], c[2], id),
                                    effect, k + 1, Append(made, id))
             ELSE turnToRockets(b, effect, k + 1, made)

applyComboEffect(b, effect, colorsToRemove) ==
    IF effect.type = "rainbow_rocket"
    THEN LET r == turnToRockets(b, effect, 1, <<>>)
         IN  [b |-> r.b, affected |-> 0,
              timers |-> {timeout("activate", -1, -1, r.made[i],
                                  RainbowRocketDelay + (i - 1) * RainbowRocketStagger) :
                              i \in 1..Len(r.made)}]
    ELSE LET hit == {c \in comboCells(b, effect, colorsToRemove) :
                        b.grid[c[2]][c[1]] # NoGem}
         IN  [b |-> [b EXCEPT !.grid = [y \in 0..(b.height - 1) |->
                        [x \in 0..(b.width - 1) |->
                            IF <<x, y>> \in hit THEN NoGem ELSE b.grid[y][x]]]],
              affected |-> Cardinality(hit), timers |-> {}]

handleSpecialGemCombo(b, gem1, gem2, colorsToRemove) ==
    LET g1 == b.gems[gem1]
        g2 == b.gems[gem2]
        effect == getComboEffect(g1, g2)
    IN  IF effect = Null THEN [b |-> b, timers |-> {}]
        ELSE LET removed == setGem(setGem(b, g1.x, g1.y, NoGem), g2.x, g2.y, NoGem)
                 r == applyComboEffect(removed, effect, colorsToRemove)
             IN  [b |-> r.b,
                  timers |-> r.timers \cup
                      (IF r.affected > 0
                       THEN {timeout("special", r.affected, -1, NoGem,
                                     SpecialActivationDelay)}
                       ELSE {})]

(***************************************************************************)
(* GameBoard: gravity and refill.                                          *)
(***************************************************************************)
\* the gems of column x, top to bottom
columnGems(b, x) ==
    LET cells == [i \in 1..b.height |-> b.grid[i - 1][x]]
    IN  SelectSeq(cells, LAMBDA g : g # NoGem)

\* rows of column x that the refill loop fills (0 .. writeIndex)
refillRows(b, x) == 0..(b.height - Len(columnGems(b, x)) - 1)

refillCells(b) == {<<x, y>> \in (0..(b.width - 1)) \X (0..(b.height - 1)) :
                      y \in refillRows(b, x)}

\* settleColumn that forgets to move writeIndex up past a gem that stays in
\* its cell, so that the next gem above a gap lands on top of it
RECURSIVE settleColumnStuck(_, _, _, _)
settleColumnStuck(b, x, y, writeIndex) ==
    IF y < 0 THEN b
    ELSE LET gem == getGem(b, x, y)
         IN  IF gem = NoGem THEN settleColumnStuck(b, x, y - 1, writeIndex)
             ELSE IF y # writeIndex
             THEN settleColumnStuck(setGem(setGem(b, x, writeIndex, gem), x, y, NoGem),
                                    x, y - 1, writeIndex - 1)
             ELSE settleColumnStuck(b, x, y - 1, writeIndex)

\* first loop of applyGravity in column x: existing gems move down in order
RECURSIVE settleColumn(_, _, _, _)
settleColumn(b, x, y, writeIndex) ==
    IF y < 0 THEN b
    ELSE LET gem == getGem(b, x, y)
         IN  IF gem = NoGem THEN settleColumn(b, x, y - 1, writeIndex)
             ELSE IF y # writeIndex
             THEN settleColumn(setGem(setGem(b, x, writeIndex, gem), x, y, NoGem),
                               x, y - 1, writeIndex - 1)
             ELSE settleColumn(b, x, y - 1, writeIndex - 1)

\* second loop: new gems from writeIndex up to row 0, coloured by `fill`;
\* a new gem starts above the board (currentY < 0) and falls
RECURSIVE refillColumn(_, _, _, _)
refillColumn(b, x, y, fill) ==
    IF y < 0 THEN b
    ELSE LET id == NewId(b.gems)
             newGem == [Gem(x, y, fill[<<x, y>>], "normal") EXCEPT !.current = Mid]
         IN  refillColumn(setGem([b EXCEPT !.gems = Alloc(b.gems, newGem)], x, y, id),
                          x, y - 1, fill)

RECURSIVE gravityFrom(_, _, _)
gravityFrom(b, x, fill) ==
    IF x >= b.width THEN b
    ELSE LET top == b.height - Len(columnGems(b, x)) - 1
             settled == settleColumn(b, x, b.height - 1, b.height - 1)
         IN  gravityFrom(refillColumn(settled, x, top, fill), x + 1, fill)

\* applyGravity, where fill gives the colour Gem.createRandom draws for each cell
applyGravity(b, fill) == gravityFrom(b, 0, fill)

(***************************************************************************)
(* GameBoard: swap validation and the frame update.                        *)
(***************************************************************************)
\* return value of wouldCreateMatchAfterSwap
wouldCreateMatchAfterSwap(b, x1, y1, x2, y2) ==
    Len(findMatches(swapGems(b, x1, y1, x2, y2))) > 0

\* the board after a call of wouldCreateMatchAfterSwap: swapped and swapped back
afterSwapCheck(b, x1, y1, x2, y2) ==
    swapGems(swapGems(b, x1, y1, x2, y2), x1, y1, x2, y2)

\* the (cell, neighbour) pairs updatePossibleMoves visits, in its loop order
RECURSIVE adjacentPairs(_, _, _)
adjacentPairs(b, x, y) ==
    IF y >= b.height THEN <<>>
    ELSE IF x >= b.width THEN adjacentPairs(b, 0, y + 1)
    ELSE LET adj == getAdjacentPositions(x, y, b.width, b.height)
         IN  [i \in 1..Len(adj) |-> <<x, y, adj[i][1], adj[i][2]>>]
                \o adjacentPairs(b, x + 1, y)

\* the loop of updatePossibleMoves pair by pair, as far as it changes the
\* board: every probe (wouldCreateMatchAfterSwap) swaps two cells and swaps
\* them back.  A board without rows has no pairs.
RECURSIVE checkPairs(_, _)
checkPairs(b, pairs) ==
    IF Len(pairs) = 0 \/ b.height = 0 THEN b
    ELSE checkPairs(afterSwapCheck(b, pairs[1][1], pairs[1][2], pairs[1][3], pairs[1][4]),
                    Tail(pairs))

\* A probe of the pair (c1, c2) leaves the grid as it was and writes, last of
\* all, c2 into x, y and the target of the gem in c2 and then c1 into those of
\* the gem in c1.  probeStamp orders these last writes of a cell over the loop.
probeStamp(pairs, c) ==
    LET stamps == {2 * k + 1 : k \in {k \in 1..Len(pairs) : <<pairs[k][1], pairs[k][2]>> = c}}
                    \cup {2 * k : k \in {k \in 1..Len(pairs) : <<pairs[k][3], pairs[k][4]>> = c}}
    IN  IF stamps = {} THEN 0 ELSE CHOOSE n \in stamps : \A m \in stamps : m <= n

\* the cell whose probe wrote last into gem i, which is on the board
lastWritten(b, pairs, i) ==
    LET held == {c \in (0..(b.width - 1)) \X (0..(b.height - 1)) : b.grid[c[2]][c[1]] = i}
    IN  IF Cardinality(held) = 1 THEN CHOOSE c \in held : TRUE
        ELSE CHOOSE c \in held : \A d \in held : probeStamp(pairs, d) <= probeStamp(pairs, c)

\* the outcome of checkPairs(b, pairs) when pairs are all the pairs of the
\* board: each gem on the board ends with the last position written into it
probeAll(b, pairs) ==
    [b EXCEPT !.gems = [i \in DOMAIN b.gems |->
        IF b.width * b.height < 2
           \/ \A x \in 0..(b.width - 1), y \in 0..(b.height - 1) : b.grid[y][x] # i
        THEN b.gems[i]
        ELSE LET c == lastWritten(b, pairs, i)
             IN  [b.gems[i] EXCEPT !.x = c[1], !.y = c[2],
                                   !.targetX = c[1], !.targetY = c[2]]]]

\* updatePossibleMoves, as far as it changes the board (the list possibleMoves
\* itself is not kept here)
updatePossibleMoves(b) == probeAll(b, adjacentPairs(b, 0, 0))

gridGems(b) == {b.grid[y][x] : x \in 0..(b.width - 1), y \in 0..(b.height - 1)} \ {NoGem}

hasEmptyCell(b) == \E x \in 0..(b.width - 1), y \in 0..(b.height - 1) : b.grid[y][x] = NoGem

\* GameBoard.update(deltaTime)
boardUpdate(b, arrive) ==
    LET onBoard == gridGems(b)
        moved == [b EXCEPT !.gems = [i \in DOMAIN b.gems |->
                     IF i \in onBoard THEN updatePosition(b.gems[i], arrive)
                     ELSE b.gems[i]]]
        allStatic == \A i \in onBoard :
                        isAtTargetPosition(moved.gems[i]) /\ moved.gems[i].animating = 0
    IN  [b |-> IF allStatic THEN updatePossibleMoves(moved) ELSE moved,
         animating |-> ~allStatic,
         probed |-> allStatic]

(***************************************************************************)
(* Player gestures.                                                        *)
(***************************************************************************)
\* animateInvalidSwap: both targets exchanged now, restored by a timeout
animateInvalidSwap(b, gem1, gem2) ==
    LET g1 == b.gems[gem1]
        g2 == b.gems[gem2]
    IN  [b |-> [b EXCEPT !.gems = [@ EXCEPT
                    ![gem1] = setTargetPosition(g1, g2.targetX, g2.targetY),
                    ![gem2] = setTargetPosition(g2, g1.targetX, g1.targetY)]],
         timer |-> [timer |-> InvalidSwapDuration, gem1 |-> gem1, gem2 |-> gem2,
                    orig1 |-> <<g1.targetX, g1.targetY>>,
                    orig2 |-> <<g2.targetX, g2.targetY>>]]

\* attemptSwap(gem1, gem2)
attemptSwap(b, gem1, gem2) ==
    LET g1 == b.gems[gem1]
        g2 == b.gems[gem2]
    IN  IF wouldCreateMatchAfterSwap(b, g1.x, g1.y, g2.x, g2.y)
        THEN LET c == afterSwapCheck(b, g1.x, g1.y, g2.x, g2.y)
                 c1 == c.gems[gem1]
                 c2 == c.gems[gem2]
             IN  [b |-> swapGems(c, c1.x, c1.y, c2.x, c2.y),
                  lsp |-> <<c2.x, c2.y>>, timer |-> Null, kind |-> "swap"]
        ELSE LET c == afterSwapCheck(b, g1.x, g1.y, g2.x, g2.y)
                 a == animateInvalidSwap(c, gem1, gem2)
             IN  [b |-> a.b, lsp |-> Null, timer |-> a.timer, kind |-> "invalid"]

\* the three-way choice shared by handleClick, handleSwipe and the drag handler
swapOrReject(b, gem1, gem2) ==
    LET g1 == b.gems[gem1]
        g2 == b.gems[gem2]
    IN  IF wouldCreateMatchAfterSwap(b, g1.x, g1.y, g2.x, g2.y)
        THEN attemptSwap(afterSwapCheck(b, g1.x, g1.y, g2.x, g2.y), gem1, gem2)
        ELSE LET c == afterSwapCheck(b, g1.x, g1.y, g2.x, g2.y)
             IN  IF g1.type # "normal" /\ g2.type # "normal"
                 THEN [b |-> c, lsp |-> Null, timer |-> Null, kind |-> "combo"]
                 ELSE LET a == animateInvalidSwap(c, gem1, gem2)
                      IN  [b |-> a.b, lsp |-> Null, timer |-> a.timer, kind |-> "invalid"]

\* objects still referenced: on the board, selected, or held by a timeout
\* (of animateInvalidSwap, or of the rainbow_rocket combination)
referenced(b, sel, timers) ==
    gridGems(b) \cup ({sel} \ {NoGem})
        \cup UNION {IF "gem1" \in DOMAIN t THEN {t.gem1, t.gem2} ELSE {t.gem} \ {NoGem} :
                       t \in timers}

\* the gem the pointer that is down started on
heldGems == IF drag = Null THEN {} ELSE {drag.gem} \ {NoGem}

live(b, sel, timers) == referenced(b, sel, timers) \cup heldGems

collect(b, sel, timers) ==
    [i \in live(b, sel, timers) |-> b.gems[i]]

\* the objects left when a handler has set draggedGem so that it holds `held`
collectHeld(b, sel, timers, held) ==
    [i \in referenced(b, sel, timers) \cup held |-> b.gems[i]]

\* the colours the random draw of the rainbow_bomb combination is taken from
DrawColors == {"red", "blue", "orange"}

\* the pairs of colours the rainbow_bomb combination can draw; another
\* gesture draws nothing
colorDraws(b, kind, gem1, gem2) ==
    IF kind = "combo" /\ {b.gems[gem1].type, b.gems[gem2].type} = {"rainbow", "bomb"}
    THEN {S \in SUBSET DrawColors : Cardinality(S) = 2}
    ELSE {{}}

\* the part of a gesture after the swap decision
applyGesture(r, gem1, gem2, sel, held) ==
    \E colorsToRemove \in colorDraws(r.b, r.kind, gem1, gem2) :
        LET q == IF r.kind = "combo"
                 THEN handleSpecialGemCombo(r.b, gem1, gem2, colorsToRemove)
                 ELSE [b |-> r.b, timers |-> {}]
        IN  /\ r.kind = "invalid" => Cardinality(swapTimers) < MaxSwapTimers
            /\ grid' = q.b.grid
            /\ swapTimers' = IF r.timer = Null THEN swapTimers
                              ELSE swapTimers \cup {r.timer}
            /\ effectTimers' = effectTimers \cup q.timers
            /\ gems' = collectHeld(q.b, sel, swapTimers' \cup effectTimers', held)
            /\ lastSwapPosition' = IF r.lsp = Null THEN lastSwapPosition ELSE r.lsp
            /\ selectedGem' = sel
            /\ holedScans' = IF hasEmptyCell(Board) THEN {"wouldCreateMatchAfterSwap"}
                              ELSE {}

\* Animation frames keep coming while time passes: after every lapse of time
\* the next step is a frame, before any timeout or gesture.
frameDue == op = "tick"

\* handleSwipe from cell (x, y) towards (x + dx, y + dy)
HandleSwipe(x, y, dx, dy) ==
    /\ UNCHANGED comboVars
    /\ ~frameDue
    /\ inputs < MaxInputs
    /\ ~animating
    /\ getGem(Board, x, y) # NoGem
    /\ getGem(Board, x + dx, y + dy) # NoGem
    /\ applyGesture(swapOrReject(Board, getGem(Board, x, y), getGem(Board, x + dx, y + dy)),
                    getGem(Board, x, y), getGem(Board, x + dx, y + dy), selectedGem,
                    heldGems)
    /\ inputs' = inputs + 1
    /\ op' = "handleSwipe"
    /\ UNCHANGED <<setup, drag, width, height, animating, gameVars, procs, out>>

\* handleClick(screenX, screenY) past `if (this.animating) return false`, the
\* point being over cell (x, y); (-1, -1) stands for a point outside the grid
handleClick(x, y, held) ==
    LET clickedGem == getGem(Board, x, y)
    IN  IF ~isValidGridPosition(x, y, width, height)
        THEN /\ selectedGem # NoGem
             /\ selectedGem' = NoGem
             /\ gems' = collectHeld(Board, NoGem, swapTimers \cup effectTimers, held)
             /\ UNCHANGED <<grid, swapTimers, effectTimers, lastSwapPosition>>
             /\ holedScans' = {}
        ELSE /\ clickedGem # NoGem
             /\ IF selectedGem = NoGem
                THEN /\ selectedGem' = clickedGem
                     /\ UNCHANGED <<grid, gems, swapTimers, effectTimers,
                                    lastSwapPosition>>
                     /\ holedScans' = {}
                ELSE IF selectedGem = clickedGem
                THEN /\ selectedGem' = NoGem
                     /\ UNCHANGED <<grid, gems, swapTimers, effectTimers,
                                    lastSwapPosition>>
                     /\ holedScans' = {}
                ELSE IF areAdjacent(gems[selectedGem].x, gems[selectedGem].y,
                                    gems[clickedGem].x, gems[clickedGem].y)
                THEN applyGesture(swapOrReject(Board, selectedGem, clickedGem),
                                  selectedGem, clickedGem, NoGem, held)
                ELSE /\ selectedGem' = clickedGem
                     /\ gems' = collectHeld(Board, clickedGem, swapTimers \cup effectTimers,
                                         held)
                     /\ UNCHANGED <<grid, swapTimers, effectTimers, lastSwapPosition>>
                     /\ holedScans' = {}

\* handleClick on cell (x, y)
HandleClick(x, y) ==
    /\ UNCHANGED comboVars
    /\ ~frameDue
    /\ inputs < MaxInputs
    /\ ~animating
    /\ inputs' = inputs + 1
    /\ op' = "handleClick"
    /\ UNCHANGED <<setup, drag, width, height, animating, gameVars, procs, out>>
    /\ handleClick(x, y, heldGems)

\* the timeout of animateInvalidSwap: both gems get their old targets back
SwapTimeout(t) ==
    /\ UNCHANGED comboVars
    /\ ~frameDue
    /\ t \in swapTimers
    /\ t.timer = 0
    /\ swapTimers' = swapTimers \ {t}
    /\ LET h == [gems EXCEPT
                    ![t.gem1] = setTargetPosition(@, t.orig1[1], t.orig1[2]),
                    ![t.gem2] = setTargetPosition(@, t.orig2[1], t.orig2[2])]
       IN  gems' = collect([Board EXCEPT !.gems = h], selectedGem,
                           swapTimers' \cup effectTimers)
    /\ UNCHANGED <<setup, drag, width, height, grid, animating, selectedGem, lastSwapPosition,
                   gameVars, procs, effectTimers, inputs, out>>
    /\ op' = "swapTimeout"
    /\ holedScans' = {}

Patterns == {0, 4}

LabSize == 5
LabPatterns == {5}

CascadeWidth == 3
CascadeHeight == 1
CascadePatterns == {0, 6}

BaseColors == <<"blue", "green", "yellow", "purple">>

\* colourings without a run of three: pairs of equal colours alternating along
\* the rows (k < 2) or along the columns (k = 2, 3), a checkerboard above a
\* last row of pairs (k = 4), or four colours in the order (x + 2y) mod 4
\* (k = 5), which no swap of two neighbours turns into a run; and the draw in
\* which every tile comes out red (k >= 6).  The starting boards and the colours
\* Gem.createRandom gives the refill are drawn from these.
startColor(x, y, k) ==
    LET a == IF k < 2 THEN x ELSE y
        c == IF k < 2 THEN y ELSE x
    IN  IF k >= 6 THEN "red"
        ELSE IF k >= 5 THEN BaseColors[((x + 2 * y) % 4) + 1]
        ELSE IF k >= 4
        THEN IF (IF y = GameHeight - 1 THEN x \div 2 ELSE x + y + 1) % 2 = 0
             THEN "red" ELSE "blue"
        ELSE IF ((a \div 2) + c + k) % 2 = 0 THEN "red" ELSE "blue"

\* the colourings the refill of board b draws from
refillPatterns(b) ==
    IF b.width = LabSize THEN LabPatterns
    ELSE IF b.height = CascadeHeight THEN CascadePatterns
    ELSE Patterns

(***************************************************************************)
(* GemsBlastGame and ClassicMode: moves, score and the end of the game.    *)
(* The functions below work on a record g = [gameRunning, moves, score,    *)
(* endGames] of the fields they read and write.                            *)
(***************************************************************************)
ClassicMoves == 30
ClassicTargetScore == 5000

Game == [gameRunning |-> gameRunning, moves |-> moves, score |-> score,
         endGames |-> endGames]

\* startGame for a new ClassicMode
startedGame == [gameRunning |-> TRUE, moves |-> ClassicMoves, score |-> 0,
                endGames |-> <<>>]

\* ClassicMode.isCompleted
isCompleted(g) == g.score >= ClassicTargetScore

\* endGame(success): the rewards, statistics, level completion and modal of
\* one end of the game
endGame(g, success) ==
    [g EXCEPT !.gameRunning = FALSE, !.endGames = Append(@, success)]

\* GameMode.checkGameState
checkGameState(g) ==
    IF g.moves <= 0 /\ ~isCompleted(g) THEN endGame(g, FALSE)
    ELSE IF isCompleted(g) THEN endGame(g, TRUE)
    ELSE g

\* GameMode.onMove
onMove(g) == checkGameState([g EXCEPT !.moves = @ - 1])

\* GameMode.processMatch: ClassicMode.updateObjectives copies the score into
\* the objective, which isCompleted does not read
processMatch(g) == checkGameState(g)

\* getScoreMultiplier(match), doubled
getScoreMultiplier(match) ==
    (IF match.length >= 5 THEN 3 ELSE IF match.length = 4 THEN 2 ELSE 1)
        * (IF match.specialType = "rocket" THEN 3
           ELSE IF match.specialType \in {"bomb", "tshape"} THEN 4
           ELSE IF match.specialType = "rainbow" THEN 6
           ELSE 2)

\* the totalScore that processMove and processCascadeMatches add up
RECURSIVE totalScore(_, _)
totalScore(matches, i) ==
    IF i > Len(matches) THEN 0
    ELSE (Len(matches[i].gems) * 10 * getScoreMultiplier(matches[i])) \div 2
            + totalScore(matches, i + 1)

\* getComboMultiplier, doubled
getComboMultiplier(c) ==
    IF c <= 1 THEN 2 ELSE IF c = 2 THEN 3 ELSE IF c = 3 THEN 4 ELSE IF c = 4 THEN 5 ELSE 6

\* addScore(points) with the combo counter at c
addScore(g, points, c) ==
    [g EXCEPT !.score = @ + (points * getComboMultiplier(c)) \div 2]

\* processMove(matches), the game running: the combo counter is 1 at addScore
processMove(g, matches) ==
    IF ~g.gameRunning THEN g
    ELSE addScore(processMatch(onMove(g)), totalScore(matches, 1), 1)

\* processCascadeMatches(matches) with the combo counter at c
processCascadeMatches(g, matches, c) ==
    IF ~g.gameRunning THEN g
    ELSE addScore(processMatch(g), totalScore(matches, 1), c)

\* the score of processSpecialActivation for n affected gems:
\* Math.floor(15 * n * Math.min(n / 5, 5)) in double arithmetic, where the
\* quotient 23 / 5 rounds so that the product falls just short of 1587
specialScore(n) ==
    IF n = 23 THEN 1586 ELSE IF n < 25 THEN 3 * n * n ELSE 75 * n

\* checkWinConditions: GemsBlastGame.objectives is empty, setupObjectives
\* finding no case for the mode, so that every objective is met
checkWinConditions(g) == endGame(g, TRUE)

\* processSpecialActivation(affectedGems) for n affected gems with the combo
\* counter at c, up to the timeout it sets; the timer (config.enableTimer) has
\* time left, so that checkLoseConditions does nothing
processSpecialActivation(g, n, c) ==
    IF ~g.gameRunning THEN g
    ELSE checkWinConditions(addScore(g, specialScore(n), c))

\* the fields of g written back
setGame(g) ==
    /\ gameRunning' = g.gameRunning
    /\ moves' = g.moves
    /\ score' = g.score
    /\ endGames' = g.endGames

(***************************************************************************)
(* GemsBlastGame: the frame update and the cascade.                        *)
(***************************************************************************)
\* scheduleComboReset: the timeout comboTimeout holds is cleared, a new one set
scheduleComboReset ==
    /\ comboTimers' = (comboTimers \ {comboTimeout}) \cup {ComboResetDelay}
    /\ comboTimeout' = ComboResetDelay
    /\ UNCHANGED combo

\* processMatches(matches, isCascade) up to its first await.  A cascade round
\* calls incrementCombo, which clears the timeout comboTimeout holds; the first
\* round calls processMove (the game is running when update starts it), which
\* calls resetCombo, forgetting the timeout without clearing it, and then
\* incrementCombo.
startProcessMatches(b, matches, isCascade) ==
    LET r == removeMatches(b, matches, lastSwapPosition)
    IN  /\ combo' = IF isCascade THEN combo + 1 ELSE 1
        /\ setGame(IF isCascade THEN processCascadeMatches(Game, matches, combo + 1)
                   ELSE processMove(Game, matches))
        /\ comboTimeout' = NoTimeout
        /\ comboTimers' = IF isCascade THEN comboTimers \ {comboTimeout} ELSE comboTimers
        /\ animating' = TRUE
        /\ grid' = r.b.grid
        /\ gems' = collect(r.b, selectedGem, swapTimers \cup effectTimers)
        /\ effectTimers' = effectTimers \cup r.timers
        /\ lastSwapPosition' = IF isCascade THEN lastSwapPosition ELSE Null

\* GemsBlastGame.update(deltaTime): one animation frame.  A gem moves by
\* 8 * deltaTime of its remaining distance per frame, so `arrive` (it comes
\* within 0.01 of its target) takes a frame of about 125 ms or a few slow ones.
Frame(arrive) ==
    LET u == boardUpdate(Board, arrive)
        scan == ~u.animating /\ gameRunning
        matches == IF scan THEN findMatches(u.b) ELSE <<>>
    IN  /\ arrive => \E i \in gridGems(Board) : ~isAtTargetPosition(gems[i])
        /\ holedScans' = IF hasEmptyCell(u.b)
                         THEN (IF u.probed THEN {"wouldCreateMatchAfterSwap"} ELSE {})
                                 \cup (IF scan THEN {"update"} ELSE {})
                         ELSE {}
        /\ IF Len(matches) > 0
           THEN /\ Len(procs) < MaxProcs
                /\ startProcessMatches(u.b, matches, FALSE)
                /\ procs' = Append(procs, [pc |-> "gravity", timer |-> RemovalDelay,
                                            depth |-> 1])
                /\ op' = "processMatches"
                /\ UNCHANGED <<setup, drag, width, height, selectedGem, swapTimers, inputs, out>>
           ELSE /\ animating' = u.animating
                /\ gems' = u.b.gems
                /\ grid' = u.b.grid
                /\ op' = "update"
                /\ UNCHANGED <<setup, drag, width, height, selectedGem, lastSwapPosition, gameVars,
                               procs, swapTimers, effectTimers, inputs, out>>
                /\ UNCHANGED comboVars

without(seq, i) == [k \in 1..(Len(seq) - 1) |-> IF k < i THEN seq[k] ELSE seq[k + 1]]

\* processMatches after `await Utils.delay(400)`: applyGravity, then the next await
ProcGravity(i) ==
    /\ UNCHANGED comboVars
    /\ ~frameDue
    /\ i \in 1..Len(procs)
    /\ procs[i].pc = "gravity"
    /\ procs[i].timer = 0
    /\ \E k \in refillPatterns(Board) :
          LET fill == [c \in refillCells(Board) |-> startColor(c[1], c[2], k)]
              b == applyGravity(Board, fill)
          IN  /\ grid' = b.grid
              /\ gems' = collect(b, selectedGem, swapTimers \cup effectTimers)
    /\ procs' = [procs EXCEPT ![i] = [@ EXCEPT !.pc = "rescan", !.timer = FallDelay]]
    /\ op' = "applyGravity"
    /\ holedScans' = {}
    /\ UNCHANGED <<setup, drag, width, height, animating, selectedGem, lastSwapPosition, gameVars,
                   swapTimers, effectTimers, inputs, out>>

\* the rescan step ending the cascade whatever the new scan finds
ProcRescanNoLoop(i) ==
    /\ ~frameDue
    /\ i \in 1..Len(procs)
    /\ procs[i].pc = "rescan"
    /\ procs[i].timer = 0
    /\ animating' = FALSE
    /\ scheduleComboReset
    /\ procs' = without(procs, i)
    /\ op' = "cascadeDone"
    /\ holedScans' = IF hasEmptyCell(Board) THEN {"processMatches"} ELSE {}
    /\ UNCHANGED <<setup, drag, width, height, grid, gems, effectTimers, lastSwapPosition,
                   selectedGem, gameVars, swapTimers, inputs, out>>

\* processMatches after `await Utils.delay(800)`: rescan; recurse or finish
ProcRescan(i) ==
    /\ ~frameDue
    /\ i \in 1..Len(procs)
    /\ procs[i].pc = "rescan"
    /\ procs[i].timer = 0
    /\ LET newMatches == findMatches(Board)
       IN  IF Len(newMatches) > 0
           THEN /\ procs[i].depth < MaxDepth
                /\ startProcessMatches(Board, newMatches, TRUE)
                /\ procs' = [procs EXCEPT ![i] = [pc |-> "gravity", timer |-> RemovalDelay,
                                                  depth |-> procs[i].depth + 1]]
                /\ op' = "cascade"
           ELSE /\ animating' = FALSE
                /\ scheduleComboReset
                /\ procs' = without(procs, i)
                /\ op' = "cascadeDone"
                /\ UNCHANGED <<grid, gems, effectTimers, lastSwapPosition>>
                /\ UNCHANGED gameVars
    /\ holedScans' = IF hasEmptyCell(Board) THEN {"processMatches"} ELSE {}
    /\ UNCHANGED <<setup, drag, width, height, selectedGem, swapTimers, inputs, out>>

\* the timeouts set by applySpecialEffect: this.setGem(x, y, null).  Those
\* that are due at the same instant run back to back, with no frame between.
EffectTimeout ==
    /\ UNCHANGED comboVars
    /\ ~frameDue
    /\ LET due == {t \in effectTimers : t.kind = "clear" /\ t.timer = 0}
           b == [Board EXCEPT !.grid = [y \in 0..(height - 1) |->
                    [x \in 0..(width - 1) |->
                        IF \E t \in due : t.x = x /\ t.y = y THEN NoGem ELSE grid[y][x]]]]
       IN  /\ due # {}
           /\ effectTimers' = effectTimers \ due
           /\ grid' = b.grid
           /\ gems' = collect(b, selectedGem, swapTimers \cup effectTimers')
    /\ op' = "effectTimeout"
    /\ holedScans' = {}
    /\ UNCHANGED <<setup, drag, width, height, animating, selectedGem, lastSwapPosition, gameVars,
                   procs, swapTimers, inputs, out>>

\* a timeout of the rainbow_rocket combination: activateSpecialGem(rocket)
ActivateTimeout(t) ==
    /\ UNCHANGED comboVars
    /\ ~frameDue
    /\ t \in effectTimers
    /\ t.kind = "activate"
    /\ t.timer = 0
    /\ LET r == activateSpecialGem(Board, t.gem)
       IN  /\ effectTimers' = (effectTimers \ {t}) \cup r.timers
           /\ grid' = r.b.grid
           /\ gems' = collect(r.b, selectedGem, swapTimers \cup effectTimers')
    /\ op' = "activateSpecialGem"
    /\ holedScans' = {}
    /\ UNCHANGED <<setup, drag, width, height, animating, selectedGem, lastSwapPosition, gameVars,
                   procs, swapTimers, inputs, out>>

\* the timeout set by activateSpecialGem and handleSpecialGemCombo:
\* processSpecialActivation, which defers an applyGravity
SpecialActivationTimeout(t) ==
    /\ UNCHANGED comboVars
    /\ ~frameDue
    /\ t \in effectTimers
    /\ t.kind = "special"
    /\ t.timer = 0
    /\ effectTimers' = (effectTimers \ {t}) \cup
            (IF gameRunning THEN {timeout("gravity", -1, -1, NoGem, SpecialGravityDelay)}
             ELSE {})
    /\ setGame(processSpecialActivation(Game, t.x, combo))
    /\ op' = "processSpecialActivation"
    /\ holedScans' = {}
    /\ UNCHANGED <<setup, drag, width, height, grid, gems, animating, selectedGem, lastSwapPosition,
                   procs, swapTimers, inputs, out>>

\* the timeout set by processSpecialActivation: this.board.applyGravity()
GravityTimeout(t) ==
    /\ UNCHANGED comboVars
    /\ ~frameDue
    /\ t \in effectTimers
    /\ t.kind = "gravity"
    /\ t.timer = 0
    /\ effectTimers' = effectTimers \ {t}
    /\ \E k \in refillPatterns(Board) :
          LET fill == [c \in refillCells(Board) |-> startColor(c[1], c[2], k)]
              b == applyGravity(Board, fill)
          IN  /\ grid' = b.grid
              /\ gems' = collect(b, selectedGem, swapTimers \cup effectTimers')
    /\ op' = "gravityTimeout"
    /\ holedScans' = {}
    /\ UNCHANGED <<setup, drag, width, height, animating, selectedGem, lastSwapPosition, gameVars,
                   procs, swapTimers, inputs, out>>

\* time passes until the next timeout or the end of the next appearance
\* animation: no timeout is due now, and something is waiting
Min(S) == CHOOSE n \in S : \A m \in S : n <= m

\* the timeout set by scheduleComboReset: resetCombo
ComboTimeout ==
    /\ ~frameDue
    /\ 0 \in comboTimers
    /\ combo' = 0
    /\ comboTimeout' = NoTimeout
    /\ comboTimers' = comboTimers \ {0}
    /\ op' = "resetCombo"
    /\ holedScans' = {}
    /\ UNCHANGED <<setup, drag, width, height, grid, gems, animating, selectedGem, lastSwapPosition,
                   gameVars, procs, swapTimers, effectTimers, inputs, out>>

waiting ==
    {procs[i].timer : i \in 1..Len(procs)}
        \cup {t.timer : t \in swapTimers \cup effectTimers}
        \cup comboTimers
        \cup ({gems[i].animating : i \in DOMAIN gems} \ {0})

countDown(n, d) == IF n > d THEN n - d ELSE 0

Tick ==
    /\ ~frameDue
    /\ waiting # {}
    /\ 0 \notin waiting
    /\ LET d == Min(waiting)
       IN  /\ procs' = [i \in 1..Len(procs) |-> [procs[i] EXCEPT !.timer = @ - d]]
           /\ swapTimers' = {[t EXCEPT !.timer = @ - d] : t \in swapTimers}
           /\ effectTimers' = {[t EXCEPT !.timer = @ - d] : t \in effectTimers}
           /\ comboTimers' = {t - d : t \in comboTimers}
           /\ comboTimeout' = IF comboTimeout = NoTimeout THEN NoTimeout
                               ELSE comboTimeout - d
           /\ UNCHANGED combo
           /\ gems' = [i \in DOMAIN gems |-> [gems[i] EXCEPT !.animating = countDown(@, d)]]
    /\ op' = "tick"
    /\ holedScans' = {}
    /\ UNCHANGED <<setup, drag, width, height, grid, animating, selectedGem, lastSwapPosition,
                   gameVars, inputs, out>>

(***************************************************************************)
(* Pure-function runs: findMatches applied to pattern boards.              *)
(*                                                                         *)
(* A pattern board is a PatternSize x PatternSize checkerboard of blue and *)
(* green (no run of equal colours) with a red horizontal stroke and a red  *)
(* or yellow vertical stroke painted over it.                              *)
(***************************************************************************)
PatternRange == 0..(PatternSize - 1)

patternColor(x, y, h, v) ==
    IF v.len > 0 /\ x = v.x /\ y >= v.y /\ y < v.y + v.len THEN v.color
    ELSE IF h.len > 0 /\ y = h.y /\ x >= h.x /\ x < h.x + h.len THEN "red"
    ELSE IF (x + y) % 2 = 0 THEN "blue" ELSE "green"

Strokes(colors) ==
    {s \in [x : PatternRange, y : PatternRange, len : 0..PatternSize, color : colors] :
        /\ s.len = 0 => (s.x = 0 /\ s.y = 0 /\ s.color = "red")
        /\ s.len # 0 => s.len >= 2}

HStrokes == {s \in Strokes({"red"}) : s.x + s.len <= PatternSize}
VStrokes == {s \in Strokes({"red", "yellow"}) : s.y + s.len <= PatternSize}

\* a full board of settled normal gems; the gem of cell (x, y) is y * w + x + 1
boardOf(w, h, colorAt) ==
    [width |-> w, height |-> h,
     grid |-> [y \in 0..(h - 1) |-> [x \in 0..(w - 1) |-> y * w + x + 1]],
     gems |-> [i \in 1..(w * h) |->
                 SettledGem((i - 1) % w, (i - 1) \div w,
                            colorAt[(i - 1) % w][(i - 1) \div w], "normal")]]

patternBoard(h, v) ==
    LET colorAt == [x \in PatternRange |-> [y \in PatternRange |->
                       patternColor(x, y, h, v)]]
    IN  boardOf(PatternSize, PatternSize, colorAt)

Quiet ==
    /\ animating = FALSE
    /\ selectedGem = NoGem
    /\ drag = Null
    /\ setup = Null
    /\ lastSwapPosition = Null
    /\ gameRunning = startedGame.gameRunning
    /\ moves = startedGame.moves
    /\ score = startedGame.score
    /\ endGames = startedGame.endGames
    /\ procs = <<>>
    /\ combo = 0
    /\ comboTimeout = NoTimeout
    /\ comboTimers = {}
    /\ swapTimers = {}
    /\ effectTimers = {}
    /\ inputs = 0
    /\ holedScans = {}

\* the types of tile a board can hold besides rockets and bombs (GemType)
OddTypes == {"normal", "rainbow"} \cup Collectibles

\* the board with the tile of cell (x, y) given another type; its colour stays
withType(b, x, y, type) ==
    [b EXCEPT !.gems[b.grid[y][x]].type = type]

\* on the boards of one colour of stroke the second cell of the horizontal
\* stroke may hold a rainbow or a collectible
MatchInit ==
    /\ \E h \in HStrokes, v \in VStrokes, type \in OddTypes :
          LET b == withType(patternBoard(h, v), h.x + 1, h.y, type)
          IN  /\ type = "normal" \/ v.color = "red"
              /\ width = b.width
              /\ height = b.height
              /\ grid = b.grid
              /\ gems = b.gems
    /\ Quiet
    /\ op = "init"
    /\ out = <<>>

CallFindMatches ==
    /\ UNCHANGED comboVars
    /\ op = "init"
    /\ op' = "findMatches"
    /\ out' = findMatches(Board)
    /\ UNCHANGED <<setup, drag, width, height, grid, gems, animating, selectedGem, lastSwapPosition,
                   gameVars, procs, swapTimers, effectTimers, inputs, holedScans>>

MatchNext == CallFindMatches

MatchSpec == MatchInit /\ [][MatchNext]_vars

(***************************************************************************)
(* What a complete detector would report.                                  *)
(***************************************************************************)
cellGem(x, y) == gems[grid[y][x]]

\* cells (x, y) .. (x + n - 1, y) all hold mutually matchable tiles
HRunAt(x, y, n) ==
    /\ x >= 0 /\ x + n <= width /\ y \in 0..(height - 1)
    /\ \A i \in 0..(n - 1) : grid[y][x + i] # NoGem
    /\ \A i, j \in 0..(n - 1) : canMatchWith(cellGem(x + i, y), cellGem(x + j, y))

VRunAt(x, y, n) ==
    /\ y >= 0 /\ y + n <= height /\ x \in 0..(width - 1)
    /\ \A i \in 0..(n - 1) : grid[y + i][x] # NoGem
    /\ \A i, j \in 0..(n - 1) : canMatchWith(cellGem(x, y + i), cellGem(x, y + j))

InHRun(x, y) == \E s \in (x - 2)..x : HRunAt(s, y, 3)
InVRun(x, y) == \E s \in (y - 2)..y : VRunAt(x, s, 3)

\* the maximal horizontal / vertical run through a cell that is in one
HRunCells(x, y) ==
    {<<i, y>> : i \in {i \in 0..(width - 1) :
        \A k \in (IF i < x THEN i ELSE x)..(IF i < x THEN x ELSE i) :
            grid[y][k] # NoGem /\ canMatchWith(cellGem(k, y), cellGem(x, y))}}

VRunCells(x, y) ==
    {<<x, j>> : j \in {j \in 0..(height - 1) :
        \A k \in (IF j < y THEN j ELSE y)..(IF j < y THEN y ELSE j) :
            grid[k][x] # NoGem /\ canMatchWith(cellGem(x, k), cellGem(x, y))}}

Reported(matches) == UNION {MatchCells(matches[i]) : i \in 1..Len(matches)}

\* C8: every cell of a horizontal or vertical run of 3 or more matchable tiles
\* is a member of some match that findMatches returned
C8_Complete ==
    op = "findMatches" =>
        \A x \in 0..(width - 1), y \in 0..(height - 1) :
            (InHRun(x, y) \/ InVRun(x, y)) => <<x, y>> \in Reported(out)

\* C9: a horizontal and a vertical run of 3+ that share a cell come back as one
\* compound match holding exactly the union of the two runs
C9_Compound ==
    op = "findMatches" =>
        \A x \in 0..(width - 1), y \in 0..(height - 1) :
            (InHRun(x, y) /\ InVRun(x, y)) =>
                \E i \in 1..Len(out) :
                    /\ out[i].type = "tshape"
                    /\ MatchCells(out[i]) = HRunCells(x, y) \cup VRunCells(x, y)
                    /\ Len(out[i].gems) = Cardinality(MatchCells(out[i]))

\* C10: a single-line match is classified by its length: 3 gives no special,
\* 4 a rocket, 5 a rainbow, for horizontal and vertical runs alike
C10_LineClassification ==
    op = "findMatches" =>
        \A i \in 1..Len(out) :
            out[i].type \in {"horizontal", "vertical"} =>
                /\ out[i].length = Len(out[i].gems)
                /\ out[i].length = 3 => out[i].specialType = "normal"
                /\ out[i].length = 4 => out[i].specialType = "rocket"
                /\ out[i].length = 5 => out[i].specialType = "rainbow"

C10_Witness ==
    /\ op = "findMatches"
    /\ \E i, j \in 1..Len(out) :
          /\ out[i].type = "horizontal" /\ out[i].length = 5
          /\ out[i].specialType = "rainbow"
          /\ out[j].type = "vertical" /\ out[j].length = 4
          /\ out[j].specialType = "rocket"

\* C11: every single-line match of five tiles or more is a rainbow match, a
\* run of six or more just as a run of exactly five
C11_LongRunsAreRainbow ==
    op = "findMatches" =>
        \A i \in 1..Len(out) :
            (out[i].type \in {"horizontal", "vertical"} /\ out[i].length >= 5)
                => out[i].specialType = "rainbow"

(***************************************************************************)
(* Cascade runs: a GameWidth x GameHeight board in play.                   *)
(***************************************************************************)
Init ==
    /\ \E k \in Patterns :
          LET colorAt == [x \in 0..(GameWidth - 1) |->
                             [y \in 0..(GameHeight - 1) |-> startColor(x, y, k)]]
              b == boardOf(GameWidth, GameHeight, colorAt)
          IN  /\ width = b.width
              /\ height = b.height
              /\ grid = b.grid
              /\ gems = b.gems
    /\ Quiet
    /\ op = "play"
    /\ out = <<>>

\* the cells the player's gestures start from: the last column and the last row
InputCells == {c \in (0..(width - 1)) \X (0..(height - 1)) :
                  c[1] = width - 1 \/ c[2] = height - 1}

Next ==
    \/ \E arrive \in BOOLEAN : Frame(arrive)
    \/ \E i \in 1..MaxProcs : ProcGravity(i)
    \/ \E i \in 1..MaxProcs : ProcRescan(i)
    \/ \E t \in swapTimers : SwapTimeout(t)
    \/ ComboTimeout
    \/ Tick
    \/ \E c \in InputCells, d \in {<<1, 0>>, <<0, 1>>} :
          HandleSwipe(c[1], c[2], d[1], d[2])
    \/ \E c \in InputCells \cup {<<-1, -1>>} : HandleClick(c[1], c[2])

Spec == Init /\ [][Next]_vars

(***************************************************************************)
(* Properties of the cascade runs.                                         *)
(***************************************************************************)
cascading == procs # <<>>

\* C1: when a cascade completes (the rescan finds nothing and clears
\* animating), the board holds no match: findMatches() returns the empty list
C1_CascadeEndsMatchFree ==
    op = "cascadeDone" => Len(findMatches(Board)) = 0

\* a cascade that removed a match, refilled the board and then completed
C1_Witness ==
    /\ op = "cascadeDone"
    /\ ~animating
    /\ ~hasEmptyCell(Board)
    /\ \E i \in gridGems(Board) : gems[i].current = Mid

\* C2: at most one processMatches cascade is in progress at any time
C2_SingleCascade == Len(procs) <= 1

\* C3: while a cascade is in progress animating stays true, and a swap
\* request made meanwhile leaves the grid as it is
C3_InputLocked ==
    [][/\ procs' # <<>> => animating'
       /\ (cascading /\ inputs' # inputs) => grid' = grid]_vars

\* C4: findMatches is never run on a grid with cells emptied by a removal
\* and not yet refilled, whoever calls it
C4_NoScanOnHoles == holedScans = {}

\* C5: every non-empty cell (x, y) holds a gem whose x and y are x and y
C5_PositionAgreement ==
    \A x \in 0..(width - 1), y \in 0..(height - 1) :
        grid[y][x] # NoGem => gems[grid[y][x]].x = x /\ gems[grid[y][x]].y = y

\* the positions wouldCreateMatchAfterSwap is probed with: the grid and a rim
\* of out-of-bounds positions around it
ProbePositions == (-1..width) \X (-1..height)

\* C6: wouldCreateMatchAfterSwap leaves the grid and every gem's x and y as
\* they were, for every pair of positions, whenever a gesture may call it
C6_ProbeRestores ==
    (~animating /\ op # "init" /\ op # "findMatches") =>
        \A p, q \in ProbePositions :
            LET c == afterSwapCheck(Board, p[1], p[2], q[1], q[2])
            IN  /\ c.grid = grid
                /\ \A i \in DOMAIN gems : c.gems[i].x = gems[i].x /\ c.gems[i].y = gems[i].y

\* the tiles of column x of a grid, top to bottom, without the empty cells
tilesOf(g, x) == SelectSeq([i \in 1..height |-> g[i - 1][x]], LAMBDA id : id # NoGem)

\* C7: applyGravity drops no tile and duplicates none: in every column the
\* tiles it found keep their order at the bottom, with only new tiles above
C7_GravityKeepsTiles ==
    [][op' = "applyGravity" =>
        \A x \in 0..(width - 1) :
            LET old == tilesOf(grid, x)
                new == tilesOf(grid', x)
                fresh == height - Len(old)
            IN  /\ Len(new) = height
                /\ SubSeq(new, fresh + 1, height) = old
                /\ \A k \in 1..fresh : new[k] \notin gridGems(Board)
                /\ \A k, l \in 1..fresh : k # l => new[k] # new[l]]_vars

\* gravity has just moved two old tiles of a column down below a new one
C7_Witness ==
    /\ op = "applyGravity"
    /\ \E x \in 0..(width - 1), y \in 1..(height - 2) :
          /\ grid[y][x] # NoGem /\ grid[y + 1][x] # NoGem /\ grid[0][x] # NoGem
          /\ gems[grid[y][x]].current # <<x, y>>
          /\ gems[grid[y + 1][x]].current # <<x, y + 1>>
          /\ gems[grid[y][x]].animating = 0
          /\ gems[grid[y + 1][x]].animating = 0
          /\ gems[grid[0][x]].animating = AnimateInDuration

(***************************************************************************)
(* Special-tile runs: one gesture on a LabSize x LabSize board.            *)
(*                                                                         *)
(* The base colouring (x + 2y) mod 4 over four colours has no run and no   *)
(* swap of two neighbours makes one.  A stroke board has a red run in row  *)
(* StrokeRow with one cell missing and the red gem that fills it below    *)
(* the gap, and possibly a rocket or bomb among the red gems.  A pair      *)
(* board has two chosen tiles on top of each other in the middle and one   *)
(* red gem in the corner.                                                  *)
(***************************************************************************)
StrokeRow == 2

LabRange == 0..(LabSize - 1)

TileKinds == {"normal", "rocketH", "rocketV", "bomb", "rainbow"}

StrokeBoards ==
    {s \in [kind : {"stroke"}, len : {4, 5}, gap : LabRange, side : {1},
            special : {"none", "rocketH", "rocketV", "bomb"},
            first : {"normal"}, second : {"normal"}] :
        \* fewer than three red gems on either side of the gap
        s.len <= LabSize /\ s.gap \in 1..2 /\ s.len - s.gap - 1 <= 2}

PairBoards ==
    {s \in [kind : {"pair"}, len : {0}, gap : {0}, side : {1}, special : {"none"},
            first : TileKinds, second : TileKinds] :
        s.first # "normal" \/ s.second # "normal"}

\* two specials one above the other, the upper one red, with two red tiles to
\* the left of the lower one: swapping the pair also completes a run of three
PairRunBoards ==
    [kind : {"pairRun"}, len : {0}, gap : {0}, side : {1}, special : {"none"},
     first : {"rocketH", "bomb"}, second : {"rocketV", "bomb"}]

\* a red rainbow above an orange rocket, with three more red tiles than the pair
\* boards have: four red tiles in row 0 and one at the bottom of column 0
RocketBoards ==
    [kind : {"rockets"}, len : {0}, gap : {0}, side : {1}, special : {"none"},
     first : {"rainbow"}, second : {"rocketH", "rocketV"}]

tile(color, kind) ==
    [color |-> color,
     type |-> IF kind \in {"rocketH", "rocketV"} THEN "rocket"
              ELSE IF kind = "none" THEN "normal" ELSE kind,
     isRocketHorizontal |-> (kind = "rocketH")]

labTile(s, x, y) ==
    LET base == tile(startColor(x, y, 5), "normal")
        specialX == 0
    IN  IF s.kind = "stroke"
        THEN IF y = StrokeRow /\ x < s.len /\ x # s.gap
             THEN tile("red", IF x = specialX THEN s.special ELSE "normal")
             ELSE IF x = s.gap /\ y = StrokeRow + s.side THEN tile("red", "normal")
             ELSE base
        ELSE IF <<x, y>> = <<2, 2>> THEN tile("red", s.first)
        ELSE IF <<x, y>> = <<2, 3>> THEN tile("orange", s.second)
        ELSE IF <<x, y>> \in {<<0, 0>>, <<LabSize - 1, 0>>} THEN tile("red", "normal")
        ELSE IF s.kind = "pairRun" /\ y = 3 /\ x < 2 THEN tile("red", "normal")
        ELSE IF s.kind = "rockets" /\ <<x, y>> \in {<<1, 0>>, <<3, 0>>, <<0, LabSize - 1>>}
             THEN tile("red", "normal")
        ELSE base

labBoard(s) ==
    LET colorAt == [x \in LabRange |-> [y \in LabRange |-> labTile(s, x, y).color]]
        b == boardOf(LabSize, LabSize, colorAt)
    IN  [b EXCEPT !.gems = [i \in DOMAIN b.gems |->
            LET t == labTile(s, b.gems[i].x, b.gems[i].y)
            IN  [b.gems[i] EXCEPT !.type = t.type,
                                  !.isRocketHorizontal = t.isRocketHorizontal]]]

PlayInit ==
    /\ \E s \in StrokeBoards \cup PairBoards \cup PairRunBoards \cup RocketBoards :
          LET b == labBoard(s)
          IN  /\ width = b.width
              /\ height = b.height
              /\ grid = b.grid
              /\ gems = b.gems
    /\ animating = FALSE
    /\ selectedGem = NoGem
    /\ drag = Null
    /\ setup = Null
    /\ lastSwapPosition = Null
    /\ gameRunning = startedGame.gameRunning
    /\ moves = startedGame.moves
    /\ score = startedGame.score
    /\ endGames = startedGame.endGames
    /\ procs = <<>>
    /\ combo = 0
    /\ comboTimeout = NoTimeout
    /\ comboTimers = {}
    /\ swapTimers = {}
    /\ effectTimers = {}
    /\ inputs = MaxInputs - 1
    /\ holedScans = {}
    /\ op = "play"
    /\ out = <<>>

\* the gestures of these runs: swipes between row StrokeRow and the row below
LabSwipes ==
    {g \in [x : LabRange, y : LabRange, dy : {-1, 1}] :
        {g.y, g.y + g.dy} = {StrokeRow, StrokeRow + 1}}

PlayNext ==
    \/ \E arrive \in BOOLEAN : Frame(arrive)
    \/ \E i \in 1..MaxProcs : ProcGravity(i)
    \/ \E i \in 1..MaxProcs : ProcRescan(i)
    \/ \E t \in swapTimers : SwapTimeout(t)
    \/ ComboTimeout
    \/ EffectTimeout
    \/ \E t \in effectTimers : ActivateTimeout(t)
    \/ \E t \in effectTimers : SpecialActivationTimeout(t)
    \/ \E t \in effectTimers : GravityTimeout(t)
    \/ Tick
    \/ \E g \in LabSwipes : HandleSwipe(g.x, g.y, 0, g.dy)

PlaySpec == PlayInit /\ [][PlayNext]_vars

(***************************************************************************)
(* Properties of the special-tile runs.                                    *)
(***************************************************************************)
\* the two cells of the swap the last gesture made: the gem now in
\* lastSwapPosition is still drawn in the cell it came from
swappedCells ==
    LET lsp == lastSwapPosition
    IN  {lsp, gems[grid[lsp[2]][lsp[1]]].current}

\* C12: when the player's swap completes a line match that makes a special
\* tile, the special tile is created in the swapped cell that belongs to the
\* match, whichever of the two gems the gesture started from
C12_SpecialAtSwappedCell ==
    [][(op = "handleSwipe" /\ lastSwapPosition # Null /\ op' = "processMatches")
        => LET matches == findMatches(Board)
           IN  \A i \in 1..Len(matches) :
                 (matches[i].type \in {"horizontal", "vertical"}
                    /\ matches[i].specialType # "normal")
                 => \A c \in swappedCells \cap MatchCells(matches[i]) :
                       /\ grid'[c[2]][c[1]] # NoGem
                       /\ grid'[c[2]][c[1]] # grid[c[2]][c[1]]
                       /\ gems'[grid'[c[2]][c[1]]].type = matches[i].specialType]_vars

allCells == (0..(width - 1)) \X (0..(height - 1))

\* the cells the step's new "clear" timeouts will empty
clearsAdded ==
    {<<t.x, t.y>> : t \in {t \in effectTimers' \ effectTimers : t.kind = "clear"}}

\* the row of a horizontal rocket in cell c, the column of a vertical one
rocketLine(gem, c) ==
    IF gems[gem].isRocketHorizontal THEN {d \in allCells : d[2] = c[2]}
    ELSE {d \in allCells : d[1] = c[1]}

matchedCells ==
    LET matches == findMatches(Board)
    IN  UNION {MatchCells(matches[i]) : i \in 1..Len(matches)}

\* the members of the matches on the board that are rockets, as <<gem, cell>>
matchedRockets ==
    {<<grid[c[2]][c[1]], c>> : c \in {c \in matchedCells :
        /\ grid[c[2]][c[1]] # NoGem
        /\ gems[grid[c[2]][c[1]]].type = "rocket"}}

\* C13: the activation of a horizontal rocket empties every cell of its row
\* and of no other row, that of a vertical rocket every cell of its column and
\* of no other column: each cell of the line is empty afterwards or has its
\* removal scheduled, and outside the line (and outside the match that set the
\* rocket off) nothing is removed or scheduled
C13_RocketClearsLine ==
    [][/\ op' = "activateSpecialGem" =>
            \A t \in effectTimers \ effectTimers' :
                (t.kind = "activate" /\ gems[t.gem].type = "rocket") =>
                    LET line == rocketLine(t.gem, <<gems[t.gem].x, gems[t.gem].y>>)
                    IN  /\ \A c \in line : grid'[c[2]][c[1]] = NoGem \/ c \in clearsAdded
                        /\ \A c \in allCells \ line :
                              grid'[c[2]][c[1]] = grid[c[2]][c[1]] /\ c \notin clearsAdded
       /\ (op' \in {"processMatches", "cascade"} /\ Cardinality(matchedRockets) = 1) =>
            \A r \in matchedRockets :
                LET line == rocketLine(r[1], r[2])
                IN  /\ \A c \in line : grid'[c[2]][c[1]] = NoGem \/ c \in clearsAdded
                    /\ \A c \in allCells \ (line \cup matchedCells) :
                          grid'[c[2]][c[1]] = grid[c[2]][c[1]]
                    /\ clearsAdded \subseteq line]_vars

\* a rocket set off by activateSpecialGem has emptied its whole row, and its
\* timeouts have all run
C13_Witness ==
    /\ op = "effectTimeout"
    /\ procs = <<>>
    /\ \A t \in effectTimers : t.kind # "clear"
    /\ \E y \in 0..(height - 1) : \A x \in 0..(width - 1) : grid[y][x] = NoGem

isType(c, type) ==
    grid[c[2]][c[1]] # NoGem /\ gems[grid[c[2]][c[1]]].type = type

\* the cells within two steps of c in both directions, clipped to the board
square5(c) ==
    {d \in allCells : Abs(d[1] - c[1]) <= 2 /\ Abs(d[2] - c[2]) <= 2}

\* C14: a swap of two adjacent bombs, the first at cell a and the second just
\* below it, empties every cell of the 5x5 square centred on a (clipped to the
\* board) and no cell outside it, whichever of the two the player moved
C14_DoubleBombSquare ==
    [][op' = "handleSwipe" =>
          \A a \in allCells :
              LET b == <<a[1], a[2] + 1>>
              IN  (/\ b \in allCells
                   /\ isType(a, "bomb") /\ isType(b, "bomb")
                   /\ grid'[a[2]][a[1]] = NoGem /\ grid'[b[2]][b[1]] = NoGem)
                  => \A c \in allCells :
                        IF c \in square5(a) THEN grid'[c[2]][c[1]] = NoGem
                        ELSE grid'[c[2]][c[1]] = grid[c[2]][c[1]]]_vars

(***************************************************************************)
(* Rainbows and collectibles on the pattern boards.                        *)
(***************************************************************************)
\* C15: no match that findMatches returns has a rainbow among its members, nor
\* a star, sun or moon
C15_NoRainbowInMatch ==
    op = "findMatches" =>
        \A i \in 1..Len(out) : \A k \in 1..Len(out[i].gems) :
            gems[out[i].gems[k].gem].type \notin {"rainbow"} \cup Collectibles

\* a rainbow of the stroke's colour lies right before three tiles of the stroke
\* that were reported as a match
C15_Witness ==
    /\ op = "findMatches"
    /\ \E x \in 0..(width - 4), y \in 0..(height - 1) :
          /\ cellGem(x, y).type = "rainbow"
          /\ cellGem(x, y).color = cellGem(x + 1, y).color
          /\ {<<x + 1, y>>, <<x + 2, y>>, <<x + 3, y>>} \subseteq Reported(out)
          /\ <<x, y>> \notin Reported(out)

\* the step is a gesture over the tiles of the cells a and b: it moved or
\* removed one of them, or it started the animation of their rejected swap
gestureOver(a, b) ==
    \/ grid'[a[2]][a[1]] # grid[a[2]][a[1]]
    \/ grid'[b[2]][b[1]] # grid[b[2]][b[1]]
    \/ \E t \in swapTimers' \ swapTimers :
          {t.gem1, t.gem2} = {grid[a[2]][a[1]], grid[b[2]][b[1]]}

\* C16: a swipe over a rainbow and a normal tile next to it is accepted and
\* activates the rainbow: no rejected-swap animation starts, and every tile of
\* the colour of the normal tile is removed or has its removal scheduled
C16_RainbowSwapActivates ==
    [][op' = "handleSwipe" =>
          \A a \in allCells :
              LET b == <<a[1], a[2] + 1>>
              IN  (/\ b \in allCells
                   /\ \/ isType(a, "rainbow") /\ isType(b, "normal")
                      \/ isType(a, "normal") /\ isType(b, "rainbow")
                   /\ gestureOver(a, b))
                  => LET partner == IF isType(a, "normal") THEN a ELSE b
                         colour == gems[grid[partner[2]][partner[1]]].color
                     IN  /\ swapTimers' = swapTimers
                         /\ \A c \in allCells :
                               (grid[c[2]][c[1]] # NoGem
                                  /\ gems[grid[c[2]][c[1]]].color = colour)
                               => (grid'[c[2]][c[1]] = NoGem \/ c \in clearsAdded)]_vars

(***************************************************************************)
(* Long cascades: a CascadeWidth x CascadeHeight board whose refill may     *)
(* come out all of one colour.                                             *)
(***************************************************************************)
\* the game is at its last CascadeMoves moves, each move before them having
\* removed one run of three (RunScore points) with no cascade
CascadeMoves == 2
RunScore == 30

CascadeInit ==
    /\ \E k \in CascadePatterns :
          LET colorAt == [x \in 0..(CascadeWidth - 1) |->
                             [y \in 0..(CascadeHeight - 1) |-> startColor(x, y, k)]]
              b == boardOf(CascadeWidth, CascadeHeight, colorAt)
          IN  /\ width = b.width
              /\ height = b.height
              /\ grid = b.grid
              /\ gems = b.gems
    /\ animating = FALSE
    /\ selectedGem = NoGem
    /\ drag = Null
    /\ setup = Null
    /\ lastSwapPosition = Null
    /\ gameRunning = startedGame.gameRunning
    /\ moves = CascadeMoves
    /\ score = RunScore * (ClassicMoves - CascadeMoves)
    /\ endGames = startedGame.endGames
    /\ procs = <<>>
    /\ combo = 0
    /\ comboTimeout = NoTimeout
    /\ comboTimers = {}
    /\ swapTimers = {}
    /\ effectTimers = {}
    /\ inputs = MaxInputs - 1
    /\ holedScans = {}
    /\ op = "play"
    /\ out = <<>>

CascadeNext ==
    \/ \E arrive \in BOOLEAN : Frame(arrive)
    \/ \E i \in 1..MaxProcs : ProcGravity(i)
    \/ \E i \in 1..MaxProcs : ProcRescan(i)
    \/ \E t \in swapTimers : SwapTimeout(t)
    \/ ComboTimeout
    \/ Tick
    \/ \E c \in allCells, d \in {<<1, 0>>, <<0, 1>>} :
          HandleSwipe(c[1], c[2], d[1], d[2])

CascadeSpec == CascadeInit /\ [][CascadeNext]_vars

\* C17: whatever tiles the refill draws, a cascade finds no more matches after
\* at most width x height rounds: no chain of processMatches calls gets longer
C17_CascadeBounded ==
    \A i \in 1..Len(procs) : procs[i].depth <= width * height

(***************************************************************************)
(* Properties of the combo counter.                                        *)
(***************************************************************************)
\* C18: within a cascade the combo counter equals the round number: when
\* processMatches has started a round (and before the round is scored) the
\* counter is the depth of that call in its chain, 1 for the round started by
\* the player's match
C18_ComboIsRound ==
    [][op' \in {"processMatches", "cascade"} =>
          \A i \in 1..Len(procs') :
              (i > Len(procs) \/ procs'[i] # procs[i]) => combo' = procs'[i].depth]_vars

\* C19: the combo counter is not reset to 0 while a cascade is in progress
C19_NoResetInCascade ==
    [][(procs # <<>> /\ combo > 0) => combo' > 0]_vars

isSpecial(c) ==
    grid[c[2]][c[1]] # NoGem /\ gems[grid[c[2]][c[1]]].type # "normal"

awaitingGravity == \E i \in 1..Len(procs) : procs[i].pc = "gravity"

\* C20: when removeMatches has resolved a match that creates a special tile,
\* the creation cell holds the new tile and the other cells of the match are
\* empty; and until the gravity step of the round no timeout empties a cell
\* that holds a special tile
C20_NewSpecialSurvives ==
    [][/\ op' \in {"processMatches", "cascade"} =>
            LET matches == findMatches(Board)
            IN  \A i \in 1..Len(matches) :
                    matches[i].specialType # "normal" =>
                        LET pos == getBestSpecialGemPosition(matches[i], lastSwapPosition)
                        IN  /\ grid'[pos[2]][pos[1]] # NoGem
                            /\ gems'[grid'[pos[2]][pos[1]]].type # "normal"
                            /\ \A c \in MatchCells(matches[i]) \ {pos} :
                                  grid'[c[2]][c[1]] = NoGem
       /\ (awaitingGravity /\ op' = "effectTimeout") =>
            \A c \in allCells : isSpecial(c) => grid'[c[2]][c[1]] # NoGem]_vars

(***************************************************************************)
(* Properties of the list removeMatches returns.                           *)
(***************************************************************************)
\* the removedGems of the removeMatches call that starts a round
returnedGems == removeMatches(Board, findMatches(Board), lastSwapPosition).removedGems

\* C21: the list removeMatches returns names exactly the tiles the call took
\* off the grid, each once: the cells listed are the cells that held a tile
\* before the call and are empty after it (those emptied by an activated
\* rocket or bomb included, the cells of new specials excluded)
C21_RemovedListExact ==
    [][op' \in {"processMatches", "cascade"} =>
          LET listed == {<<returnedGems[k].x, returnedGems[k].y>> :
                            k \in 1..Len(returnedGems)}
              emptied == {c \in allCells :
                            grid[c[2]][c[1]] # NoGem /\ grid'[c[2]][c[1]] = NoGem}
          IN  /\ listed = emptied
              /\ Cardinality(listed) = Len(returnedGems)]_vars

(***************************************************************************)
(* Properties of the combinations.                                         *)
(***************************************************************************)
ComboKinds == {"rocket", "bomb", "rainbow"}

\* C22: a swipe over two adjacent special tiles (rocket, bomb or rainbow each)
\* applies the combination effect of the pair: the grid afterwards is the one
\* handleSpecialGemCombo leaves
C22_PairGivesCombo ==
    [][op' = "handleSwipe" =>
          \A a \in allCells :
              LET b == <<a[1], a[2] + 1>>
              IN  (/\ b \in allCells
                   /\ \E k \in ComboKinds : isType(a, k)
                   /\ \E k \in ComboKinds : isType(b, k)
                   /\ gestureOver(a, b))
                  => LET ga == grid[a[2]][a[1]]
                         gb == grid[b[2]][b[1]]
                     IN  \E gs \in {<<ga, gb>>, <<gb, ga>>} :
                           \E colorsToRemove \in colorDraws(Board, "combo", gs[1], gs[2]) :
                               grid' = handleSpecialGemCombo(Board, gs[1], gs[2],
                                                             colorsToRemove).b.grid]_vars

scanIndex(c) == c[2] * width + c[1]

activations(timers) == {t \in timers : t.kind = "activate"}

\* C23: the rainbow + rocket combination turns every tile of the rainbow's
\* colour into a rocket with the orientation of the combined rocket and leaves
\* the other tiles alone; it schedules one activation per new rocket, in scan
\* order; and every activation that runs is that of the pending rocket that
\* comes first in scan order, which is then pending no more
C23_RainbowRocket ==
    [][/\ op' = "handleSwipe" =>
            \A a \in allCells :
                LET b == <<a[1], a[2] + 1>>
                IN  (/\ b \in allCells
                     /\ \/ isType(a, "rainbow") /\ isType(b, "rocket")
                        \/ isType(a, "rocket") /\ isType(b, "rainbow")
                     /\ grid'[a[2]][a[1]] = NoGem /\ grid'[b[2]][b[1]] = NoGem)
                    => LET rainbow == IF isType(a, "rainbow") THEN a ELSE b
                           rocket == IF isType(a, "rocket") THEN a ELSE b
                           colour == gems[grid[rainbow[2]][rainbow[1]]].color
                           across == gems[grid[rocket[2]][rocket[1]]].isRocketHorizontal
                           turned == {c \in allCells \ {a, b} :
                                         /\ grid[c[2]][c[1]] # NoGem
                                         /\ gems[grid[c[2]][c[1]]].color = colour}
                           rank(c) == Cardinality({d \in turned : scanIndex(d) < scanIndex(c)})
                           new == activations(effectTimers' \ effectTimers)
                       IN  /\ \A c \in turned :
                                /\ grid'[c[2]][c[1]] # NoGem
                                /\ gems'[grid'[c[2]][c[1]]].type = "rocket"
                                /\ gems'[grid'[c[2]][c[1]]].color = colour
                                /\ gems'[grid'[c[2]][c[1]]].isRocketHorizontal = across
                                /\ \E t \in new :
                                      /\ t.gem = grid'[c[2]][c[1]]
                                      /\ t.timer = DelayTicks(RainbowRocketDelay
                                                     + rank(c) * RainbowRocketStagger)
                           /\ \A c \in allCells \ (turned \cup {a, b}) :
                                 grid'[c[2]][c[1]] = grid[c[2]][c[1]]
                           /\ Cardinality(new) = Cardinality(turned)
       /\ op' = "activateSpecialGem" =>
            \E t \in activations(effectTimers) :
                /\ activations(effectTimers') = activations(effectTimers) \ {t}
                /\ \A u \in activations(effectTimers') :
                      /\ u.timer > 0
                      /\ scanIndex(<<gems[t.gem].x, gems[t.gem].y>>)
                            < scanIndex(<<gems[u.gem].x, gems[u.gem].y>>)]_vars

\* the last of several converted rockets has been activated
C23_Witness ==
    /\ op = "activateSpecialGem"
    /\ activations(effectTimers) = {}
    /\ \E y \in 0..(height - 1) : \A x \in 0..(width - 1) : grid[y][x] = NoGem

\* C24: the moves counter goes down only by processMove's one decrement for a
\* match the player's accepted swap produced (the swap position is still
\* pending when the first round starts), and the pending swap position is
\* given up only in the step that counts the move: never does a match made
\* by falling or refilled tiles or by the initial board count as a move.
C24_MovePerSwap ==
    [][/\ moves' # moves => moves' = moves - 1 /\ lastSwapPosition # Null
       /\ (lastSwapPosition # Null /\ lastSwapPosition' # lastSwapPosition)
             => moves' = moves - 1]_vars

(***************************************************************************)
(* Dragging: the start, move and end listeners of setupEventListeners on   *)
(* the 3x3 board.  The pointer goes down on a cell, moves over cells and   *)
(* goes up; draggedGem keeps the gem that was under it when it went down.  *)
(***************************************************************************)
\* the start listener with the pointer over cell (x, y) of the grid
TouchStart(x, y) ==
    /\ UNCHANGED comboVars
    /\ ~frameDue
    /\ inputs < MaxInputs
    /\ drag = Null
    /\ setup = Null
    /\ isValidGridPosition(x, y, width, height)
    /\ drag' = [gem |-> getGem(Board, x, y), pos |-> <<x, y>>]
    /\ IF animating \/ getGem(Board, x, y) = NoGem
       THEN /\ UNCHANGED <<grid, gems, selectedGem, swapTimers, effectTimers,
                           lastSwapPosition>>
            /\ holedScans' = {}
       ELSE handleClick(x, y, {getGem(Board, x, y)})
    /\ inputs' = inputs + 1
    /\ op' = "touchStart"
    /\ UNCHANGED <<setup, width, height, animating, gameVars, procs, out>>

\* the move listener with the pointer, more than 10 pixels from where it went
\* down, over cell (x, y): the cases in which it does something
TouchMove(x, y) ==
    /\ UNCHANGED comboVars
    /\ ~frameDue
    /\ drag # Null
    /\ drag.gem # NoGem
    /\ isValidGridPosition(x, y, width, height)
    /\ areAdjacent(drag.pos[1], drag.pos[2], x, y)
    /\ getGem(Board, x, y) # NoGem
    /\ ~animating
    /\ applyGesture(swapOrReject(Board, drag.gem, getGem(Board, x, y)),
                    drag.gem, getGem(Board, x, y), selectedGem, {})
    /\ drag' = Null
    /\ op' = "touchMove"
    /\ UNCHANGED <<setup, width, height, animating, gameVars, procs, inputs, out>>

\* the end listener: the drag state is cleared; a gesture that was quick and
\* long enough (swipe) goes on to handleSwipe towards (dx, dy)
TouchEnd(swipe, dx, dy) ==
    /\ UNCHANGED comboVars
    /\ ~frameDue
    /\ drag # Null
    /\ drag' = Null
    /\ LET startGem == getGem(Board, drag.pos[1], drag.pos[2])
           targetGem == getGem(Board, drag.pos[1] + dx, drag.pos[2] + dy)
       IN  IF swipe /\ ~animating /\ startGem # NoGem /\ targetGem # NoGem
           THEN applyGesture(swapOrReject(Board, startGem, targetGem),
                             startGem, targetGem, selectedGem, {})
           ELSE /\ gems' = collectHeld(Board, selectedGem, swapTimers \cup effectTimers, {})
                /\ UNCHANGED <<grid, selectedGem, swapTimers, effectTimers,
                               lastSwapPosition>>
                /\ holedScans' = {}
    /\ op' = "touchEnd"
    /\ UNCHANGED <<setup, width, height, animating, gameVars, procs, inputs, out>>

\* a board at rest on which the player may have selected a gem by a click
DragInit ==
    /\ \E k \in Patterns :
          LET colorAt == [x \in 0..(GameWidth - 1) |->
                             [y \in 0..(GameHeight - 1) |-> startColor(x, y, k)]]
              b == boardOf(GameWidth, GameHeight, colorAt)
          IN  /\ width = b.width
              /\ height = b.height
              /\ grid = b.grid
              /\ gems = b.gems
              /\ selectedGem \in {NoGem} \cup {getGem(b, c[1], c[2]) :
                                      c \in (0..(GameWidth - 1)) \X (0..(GameHeight - 1))}
    /\ animating = FALSE
    /\ lastSwapPosition = Null
    /\ drag = Null
    /\ setup = Null
    /\ gameRunning = startedGame.gameRunning
    /\ moves = startedGame.moves
    /\ score = startedGame.score
    /\ endGames = startedGame.endGames
    /\ procs = <<>>
    /\ combo = 0
    /\ comboTimeout = NoTimeout
    /\ comboTimers = {}
    /\ swapTimers = {}
    /\ effectTimers = {}
    /\ inputs = MaxInputs - 1
    /\ holedScans = {}
    /\ op = "play"
    /\ out = <<>>

DragNext ==
    \/ \E arrive \in BOOLEAN : Frame(arrive)
    \/ \E i \in 1..MaxProcs : ProcGravity(i)
    \/ \E i \in 1..MaxProcs : ProcRescan(i)
    \/ \E t \in swapTimers : SwapTimeout(t)
    \/ ComboTimeout
    \/ Tick
    \/ \E c \in InputCells : TouchStart(c[1], c[2])
    \/ \E c \in allCells : TouchMove(c[1], c[2])
    \/ \E swipe \in BOOLEAN, d \in {<<1, 0>>, <<0, 1>>} : TouchEnd(swipe, d[1], d[2])

DragSpec == DragInit /\ [][DragNext]_vars

GestureOps == {"handleClick", "handleSwipe", "touchStart", "touchMove", "touchEnd"}

\* C25: no gesture handler exchanges the tiles of two cells that are not
\* horizontal or vertical neighbours.
C25_OnlyNeighboursSwap ==
    [][op' \in GestureOps =>
          \A a \in allCells, b \in allCells :
              (/\ a # b
               /\ grid[a[2]][a[1]] # NoGem
               /\ grid[b[2]][b[1]] # NoGem
               /\ grid'[a[2]][a[1]] = grid[b[2]][b[1]]
               /\ grid'[b[2]][b[1]] = grid[a[2]][a[1]])
                  => areAdjacent(a[1], a[2], b[1], b[2])]_vars

\* the draws initializeBoard makes for a cell at most, and the draws
\* applyGravity makes for a cell it refills
MaxAttempts == 10
RefillAttempts == 1

\* the lines of three cells, across or down, that hold cell c
linesOfThree(c) ==
    {{<<c[1] + k + i, c[2]>> : i \in 0..2} : k \in -2..0}
        \cup {{<<c[1], c[2] + k + i>> : i \in 0..2} : k \in -2..0}

\* after the step, cell c lies in a run of three tiles of one colour
inRunAfter(c) ==
    \E line \in linesOfThree(c) :
        /\ line \subseteq allCells
        /\ \A d \in line : grid'[d[2]][d[1]] # NoGem
        /\ \A d \in line : gems'[grid'[d[2]][d[1]]].color = gems'[grid'[c[2]][c[1]]].color

\* C26: a tile that applyGravity generates completes a run of three or more
\* with the tiles in place only if the draws made for it used up the retry
\* budget of board initialization.
C26_RefillAvoidsRuns ==
    [][op' \in {"applyGravity", "gravityTimeout"} =>
          \A c \in refillCells(Board) : inRunAfter(c) => RefillAttempts = MaxAttempts]_vars

(***************************************************************************)
(* GameBoard.initializeBoard on the 3x3 board, one draw of its do-while    *)
(* loop per step.  Gem.createRandom draws from SetupColors.                *)
(***************************************************************************)
SetupColors == {"red", "blue"}

\* the count of the run of `color` through (x, y) along (dx, dy), the cell
\* itself included, as wouldCreateMatch counts it
RECURSIVE countSame(_, _, _, _, _, _)
countSame(b, x, y, dx, dy, color) ==
    IF /\ isValidGridPosition(x, y, b.width, b.height)
       /\ b.grid[y][x] # NoGem
       /\ b.gems[b.grid[y][x]].color = color
    THEN 1 + countSame(b, x + dx, y + dy, dx, dy, color)
    ELSE 0

\* wouldCreateMatch that looks along the row only
wouldCreateMatchAcross(b, x, y, color) ==
    1 + countSame(b, x - 1, y, -1, 0, color) + countSame(b, x + 1, y, 1, 0, color) >= 3

\* wouldCreateMatch(x, y, color)
wouldCreateMatch(b, x, y, color) ==
    \/ 1 + countSame(b, x - 1, y, -1, 0, color) + countSame(b, x + 1, y, 1, 0, color) >= 3
    \/ 1 + countSame(b, x, y - 1, 0, -1, color) + countSame(b, x, y + 1, 0, 1, color) >= 3

\* the constructor has reached initializeBoard: the grid is empty
SetupInit ==
    /\ width = GameWidth
    /\ height = GameHeight
    /\ grid = [y \in 0..(GameHeight - 1) |-> [x \in 0..(GameWidth - 1) |-> NoGem]]
    /\ gems = <<>>
    /\ setup = [x |-> 0, y |-> 0, attempts |-> 0, exhausted |-> FALSE]
    /\ animating = FALSE
    /\ selectedGem = NoGem
    /\ drag = Null
    /\ lastSwapPosition = Null
    /\ gameRunning = FALSE
    /\ moves = startedGame.moves
    /\ score = startedGame.score
    /\ endGames = startedGame.endGames
    /\ procs = <<>>
    /\ combo = 0
    /\ comboTimeout = NoTimeout
    /\ comboTimers = {}
    /\ swapTimers = {}
    /\ effectTimers = {}
    /\ inputs = 0
    /\ holedScans = {}
    /\ op = "initializeBoard"
    /\ out = <<>>

\* one pass of the do-while loop of initializeBoard in which Gem.createRandom
\* gives `color`, with `this.grid[y][x] = gem` and the step to the next cell
\* when the loop ends
DrawGem(color) ==
    /\ setup # Null
    /\ setup.y < height
    /\ LET attempts == setup.attempts + 1
       IN  IF wouldCreateMatch(Board, setup.x, setup.y, color) /\ attempts < MaxAttempts
           THEN /\ setup' = [setup EXCEPT !.attempts = attempts]
                /\ UNCHANGED <<grid, gems>>
           ELSE /\ gems' = Alloc(gems, Gem(setup.x, setup.y, color, "normal"))
                /\ grid' = [grid EXCEPT ![setup.y][setup.x] = NewId(gems)]
                /\ setup' = [x |-> IF setup.x + 1 < width THEN setup.x + 1 ELSE 0,
                             y |-> IF setup.x + 1 < width THEN setup.y ELSE setup.y + 1,
                             attempts |-> 0,
                             exhausted |-> setup.exhausted \/ attempts = MaxAttempts]
    /\ op' = "createRandom"
    /\ UNCHANGED <<width, height, animating, selectedGem, lastSwapPosition, drag,
                   gameVars, procs, comboVars, swapTimers, effectTimers, inputs, out,
                   holedScans>>

SetupNext == \E color \in SetupColors : DrawGem(color)

SetupSpec == SetupInit /\ [][SetupNext]_vars

\* initializeBoard has returned
initialized == setup # Null /\ setup.y = height

\* some cell of the board lies in a run of three tiles of one colour
hasRun ==
    \E c \in allCells : \E line \in linesOfThree(c) :
        /\ line \subseteq allCells
        /\ \A d \in line : grid[d[2]][d[1]] # NoGem
        /\ \A d \in line : gems[grid[d[2]][d[1]]].color = gems[grid[c[2]][c[1]]].color

\* C27: initializeBoard never makes more than 10 draws for a cell; when it
\* returns every cell holds a Normal tile, and the board has a run of three or
\* more tiles of one colour only if some cell used all 10 draws.
C27_InitializeBoard ==
    /\ setup # Null => setup.attempts < MaxAttempts
    /\ initialized =>
          /\ \A c \in allCells :
                /\ grid[c[2]][c[1]] # NoGem
                /\ gems[grid[c[2]][c[1]]].type = "normal"
          /\ hasRun => setup.exhausted

\* initializeBoard has returned a board with a run, a cell having used all
\* its draws
C27_Witness == initialized /\ hasRun /\ setup.exhausted

(***************************************************************************)
(* The end of a Classic game: the 3x3 board with the last moves left and   *)
(* the score one run of three short of the target.                         *)
(***************************************************************************)
EndMoves == {1, 2}

EndInit ==
    /\ \E k \in Patterns :
          LET colorAt == [x \in 0..(GameWidth - 1) |->
                             [y \in 0..(GameHeight - 1) |-> startColor(x, y, k)]]
              b == boardOf(GameWidth, GameHeight, colorAt)
          IN  /\ width = b.width
              /\ height = b.height
              /\ grid = b.grid
              /\ gems = b.gems
    /\ animating = FALSE
    /\ selectedGem = NoGem
    /\ drag = Null
    /\ setup = Null
    /\ lastSwapPosition = Null
    /\ gameRunning = TRUE
    /\ moves \in EndMoves
    /\ score = ClassicTargetScore - RunScore
    /\ endGames = <<>>
    /\ procs = <<>>
    /\ combo = 0
    /\ comboTimeout = NoTimeout
    /\ comboTimers = {}
    /\ swapTimers = {}
    /\ effectTimers = {}
    /\ inputs = 0
    /\ holedScans = {}
    /\ op = "play"
    /\ out = <<>>

EndSpec == EndInit /\ [][Next]_vars

\* C28: endGame runs at most once for a started game, the processing of the
\* move that ends the game included.
C28_EndsOnce == Len(endGames) <= 1

C30_LastMoveWins ==
    [][(moves = 1 /\ moves' = 0 /\ score' >= ClassicTargetScore)
          => /\ endGames' # <<>>
             /\ \A i \in 1..Len(endGames') : endGames'[i]]_vars

(***************************************************************************)
(* One findMatches call: overlap, emptiness and compound matches.          *)
(***************************************************************************)
\* Boards of CrossSize x CrossSize with one red horizontal stroke of 3 or more
\* cells and one or two red vertical strokes of 3 or more cells in different
\* columns, painted over the blue and green checkerboard.
CrossSize == 5

CrossRange == 0..(CrossSize - 1)

CrossStrokes ==
    {s \in [x : CrossRange, y : CrossRange, len : 3..CrossSize] : TRUE}

NoStroke == [x |-> 0, y |-> 0, len |-> 0]

inHStroke(x, y, s) == y = s.y /\ x >= s.x /\ x < s.x + s.len

inVStroke(x, y, s) == x = s.x /\ y >= s.y /\ y < s.y + s.len

crossBoard(h, v1, v2) ==
    LET colorAt == [x \in CrossRange |-> [y \in CrossRange |->
                       IF inHStroke(x, y, h) \/ inVStroke(x, y, v1) \/ inVStroke(x, y, v2)
                       THEN "red"
                       ELSE IF (x + y) % 2 = 0 THEN "blue" ELSE "green"]]
    IN  boardOf(CrossSize, CrossSize, colorAt)

CrossInit ==
    /\ \E h \in {s \in CrossStrokes : s.x + s.len <= CrossSize},
          v1 \in {s \in CrossStrokes : s.y + s.len <= CrossSize},
          v2 \in {s \in CrossStrokes : s.y + s.len <= CrossSize} \cup {NoStroke} :
          LET b == crossBoard(h, v1, v2)
          IN  /\ v2.len > 0 => v1.x < v2.x
              /\ width = b.width
              /\ height = b.height
              /\ grid = b.grid
              /\ gems = b.gems
    /\ Quiet
    /\ op = "init"
    /\ out = <<>>

CrossSpec == CrossInit /\ [][MatchNext]_vars

\* C34: the matches returned by one findMatches call are pairwise disjoint:
\* no grid cell is a member of two returned matches
C34_Disjoint ==
    op = "findMatches" =>
        \A i, j \in 1..Len(out) :
            i # j => MatchCells(out[i]) \cap MatchCells(out[j]) = {}

\* C35: findMatches returns an empty list if and only if the grid holds no
\* horizontal and no vertical run of 3 or more mutually matchable tiles
C35_EmptyIffNoRun ==
    op = "findMatches" =>
        ((out = <<>>) <=>
            ~\E x \in 0..(width - 1), y \in 0..(height - 1) :
                InHRun(x, y) \/ InVRun(x, y))

\* findMatches returned nothing for a board without a run, with one stroke of
\* two tiles on it
C35_Witness ==
    /\ op = "findMatches"
    /\ out = <<>>
    /\ \E x \in 0..(width - 2), y \in 0..(height - 1) :
          cellGem(x, y).color = "red" /\ cellGem(x + 1, y).color = "red"

\* C36: every compound ('tshape') match returned by findMatches has at least
\* 5 distinct cells and the specialType bomb
C36_CompoundIsBomb ==
    op = "findMatches" =>
        \A i \in 1..Len(out) :
            out[i].type = "tshape" =>
                /\ Cardinality(MatchCells(out[i])) >= 5
                /\ out[i].specialType = "bomb"

\* findMatches returned a compound match of exactly 5 cells and one of more
C36_Witness ==
    /\ op = "findMatches"
    /\ \E i \in 1..Len(out) : out[i].type = "tshape"
    /\ \E i \in 1..Len(out) :
          out[i].type = "tshape" /\ Cardinality(MatchCells(out[i])) = 5

(***************************************************************************)
(* The rockets of the Rainbow+Rocket combination.                          *)
(***************************************************************************)
onBoard(gem) ==
    \E x \in 0..(width - 1), y \in 0..(height - 1) : grid[y][x] = gem

\* the timeouts of the rainbow_rocket combination that fire in this step
firedActivations == {t \in effectTimers \ effectTimers' : t.kind = "activate"}

\* C32: a rocket of the Rainbow+Rocket combination that is no longer on the
\* board when its activation timeout fires empties no cell: the grid stays
\* as it is and no cell is scheduled for clearing
C32_StaleRocketIdle ==
    [][op' = "activateSpecialGem" =>
        \A t \in firedActivations :
            ~onBoard(t.gem) =>
                /\ grid' = grid
                /\ \A u \in effectTimers' \ effectTimers : u.kind # "clear"]_vars

(***************************************************************************)
(* Refilling.                                                              *)
(***************************************************************************)
\* nothing is in flight: no cascade is being resolved, no timeout of a swap
\* or of an effect is pending, and a scan of update would find no match; from
\* here only a gesture of the player changes the grid
atRest ==
    /\ procs = <<>>
    /\ swapTimers = {}
    /\ effectTimers = {}
    /\ ~animating
    /\ findMatches(Board) = <<>>

emptyCells == {c \in allCells : grid[c[2]][c[1]] = NoGem}

\* C31: every empty cell is refilled without a further move of the player:
\* whenever nothing is in flight any more, the grid is completely full
C31_RefilledAtRest == atRest => emptyCells = {}

(***************************************************************************)
(* Hints.                                                                  *)
(***************************************************************************)
\* the list this.possibleMoves after updatePossibleMoves: the (cell,
\* neighbour) pairs, in loop order, whose swap would leave a match
possibleMovesOf(b) ==
    LET found == SelectSeq(adjacentPairs(b, 0, 0), LAMBDA p :
                     wouldCreateMatchAfterSwap(b, p[1], p[2], p[3], p[4]))
    IN  [i \in 1..Len(found) |->
            [from |-> <<found[i][1], found[i][2]>>, to |-> <<found[i][3], found[i][4]>>]]

\* the values getHint can return: any one of the possible moves, as a list of
\* one move, or the empty list for null
getHint(possible) ==
    IF Len(possible) > 0 THEN {<<possible[i]>> : i \in 1..Len(possible)} ELSE {<<>>}

\* a board at rest, its list of possible moves up to date
HintInit ==
    /\ \E s \in StrokeBoards \cup PairBoards \cup PairRunBoards \cup RocketBoards :
          LET b == labBoard(s)
          IN  /\ width = b.width
              /\ height = b.height
              /\ grid = b.grid
              /\ gems = b.gems
    /\ Quiet
    /\ op = "init"
    /\ out = <<>>

CallGetHint ==
    /\ op = "init"
    /\ op' = "getHint"
    /\ out' \in getHint(possibleMovesOf(Board))
    /\ UNCHANGED <<setup, drag, width, height, grid, gems, animating, selectedGem,
                   lastSwapPosition, gameVars, comboVars, procs, swapTimers, effectTimers,
                   inputs, holedScans>>

HintNext == CallGetHint

HintSpec == HintInit /\ [][HintNext]_vars

\* the swaps of two neighbouring tiles that a gesture would accept: those that
\* leave a match and those of two special tiles
acceptedSwaps ==
    {p \in allCells \X allCells :
        /\ Abs(p[1][1] - p[2][1]) + Abs(p[1][2] - p[2][2]) = 1
        /\ grid[p[1][2]][p[1][1]] # NoGem
        /\ grid[p[2][2]][p[2][1]] # NoGem
        /\ swapOrReject(Board, grid[p[1][2]][p[1][1]], grid[p[2][2]][p[2][1]]).kind # "invalid"}

\* C37: getHint returns null only when no swap of two neighbouring tiles would
\* be accepted, be it for a match or for a combination of special tiles
C37_NullHintNoMove ==
    (op = "getHint" /\ out = <<>>) => acceptedSwaps = {}

(***************************************************************************)
(* Shuffling.                                                              *)
(***************************************************************************)
\* the permutations drawn for Utils.shuffleArray in these runs
ShuffleDraws == {"rotate", "reverse"}

\* Utils.shuffleArray(array): a permutation of the array
shuffleArray(array, draw) ==
    LET n == Len(array)
    IN  [i \in 1..n |->
            IF draw = "rotate" THEN array[(i % n) + 1]
            ELSE IF draw = "reverse" THEN array[n + 1 - i]
            ELSE array[i]]

\* the first loop of shuffle: the gems on the board, row by row
allGems(b) ==
    LET cells == SelectSeq(rowMajor(b), LAMBDA c : getGem(b, c[1], c[2]) # NoGem)
    IN  [i \in 1..Len(cells) |-> getGem(b, cells[i][1], cells[i][2])]

\* the second loop of shuffle from cell number index on: the cells are visited
\* row by row and the shuffled gems are placed one after the other while
\* there are any left; a cell visited after the last gem is not written
RECURSIVE placeShuffled(_, _, _)
placeShuffled(b, shuffledGems, index) ==
    IF index > Len(shuffledGems) THEN b
    ELSE LET c == rowMajor(b)[index]
         IN  placeShuffled(setGem(b, c[1], c[2], shuffledGems[index]),
                           shuffledGems, index + 1)

\* GameBoard.shuffle()
shuffle(b, draw) ==
    updatePossibleMoves(placeShuffled(b, shuffleArray(allGems(b), draw), 1))

\* the shuffle button or key S: GemsBlastGame.shuffleBoard()
Shuffle(draw) ==
    /\ ~frameDue
    /\ inputs < MaxInputs
    /\ inputs' = inputs + 1
    /\ LET b == shuffle(Board, draw)
       IN  /\ grid' = b.grid
           /\ gems' = collect(b, selectedGem, swapTimers \cup effectTimers)
           /\ holedScans' = IF hasEmptyCell(b)
                             THEN {"wouldCreateMatchAfterSwap", "shuffle"} ELSE {}
    /\ op' = "shuffle"
    /\ UNCHANGED <<setup, drag, width, height, animating, selectedGem, lastSwapPosition,
                   gameVars, comboVars, procs, swapTimers, effectTimers, out>>

\* the runs of Spec with shuffles among the player's inputs
ShuffleNext ==
    \/ Next
    \/ \E draw \in ShuffleDraws : Shuffle(draw)

ShuffleSpec == Init /\ [][ShuffleNext]_vars

cellsOf(g, gr) == {c \in allCells : gr[c[2]][c[1]] = g}

\* C33: shuffle only permutes the tiles: after it every tile that was on the
\* board occupies exactly one cell (so no tile is referenced by two cells),
\* also when the board has empty cells at the time of the call
C33_ShufflePermutes ==
    [][op' = "shuffle" =>
          \A g \in gridGems(Board) : Cardinality(cellsOf(g, grid')) = 1]_vars

\* on a full board shuffle does permute the tiles
ShuffleOfFullBoardPermutes ==
    [][(op' = "shuffle" /\ ~hasEmptyCell(Board)) =>
          \A g \in gridGems(Board) : Cardinality(cellsOf(g, grid')) = 1]_vars
====
